---- MODULE Spec2Model ----
(***************************************************************************)
(* Model of the client-side rate limiter of fluxer.js:                     *)
(*   - RateLimitBucket   (src/src/rateLimit/RateLimitBucket.ts)            *)
(*   - RateLimitManager  (src/src/commands/Command.ts, lines 233-353)      *)
(* Time is Date.now() in whole milliseconds.  A bucket operation is one    *)
(* synchronous callback run from the bucket's promise chain; it reads the  *)
(* clock once in _prune and once more where the code calls Date.now()      *)
(* again, and the clock may have advanced between the two reads.           *)
(* Strings are sequences of tokens: the separator "::" is one token and    *)
(* each segment between separators is one token.                           *)
(***************************************************************************)
EXTENDS Integers, Sequences, FiniteSets, TLC

\* ---------------------------------------------------------------- bounds
NumCallers == 3
MaxLimit == 2
MaxWindow == 2
MaxTime == 4
MaxDrift == 1
MaxQueue == 3
MaxBuckets == 2
MaxLoad == 2
MaxFrames == 2
MaxRetries == 2
MaxListeners == 3
MaxDispatches == 2
MaxLongFields == 2
NumInvocations == 2
MaxEvents == 3

\* Callers of RateLimitManager.waitForRateLimit, numbered in the order they call.
Callers == 1..NumCallers
\* Code that uses the bucket's public methods directly.
Direct == 0

VARIABLES
  limit,        \* RateLimitBucket.limit
  windowMs,     \* RateLimitBucket.windowMs
  clock,        \* Date.now()
  timestamps,   \* RateLimitBucket._timestamps
  queuePromise, \* RateLimitBucket._queuePromise: "settled", or "pending" on the callback enqueued last
  pending,      \* callbacks registered with .then(fn) that have not run yet, in the order of their _enqueue
  pc,           \* where each waitForRateLimit call is
  resolved,     \* whether the promise the call awaits has settled
  waitMs,       \* waitForRateLimit's local waitMs
  wake,         \* when the call's setTimeout is due
  acquireCalls, \* acquire() calls made by the waitForRateLimit call
  sleeps,       \* sleep() calls made by the waitForRateLimit call
  returned,     \* times at which waitForRateLimit calls returned, those less than windowMs ago
  last,         \* the bucket operation that ran last: its place in pending, its last clock read, its result
  acqCount,     \* acquires run since construction or reset (saturating at limit)
  firstAcq      \* Date.now() of the first of them while less than windowMs ago, else -1

bucketVars == <<limit, windowMs, clock, timestamps, queuePromise, pending,
                pc, resolved, waitMs, wake, acquireCalls,
                sleeps, returned, last, acqCount, firstAcq>>

VARIABLES
  enabled,      \* RateLimitManager._enabled
  buckets,      \* RateLimitManager._buckets: resolved key -> the bucket object it holds
  lookup        \* the last getBucket call: its config's template, its params, the key and the bucket returned

keyVars == <<enabled, buckets, lookup>>

VARIABLES
  heap,         \* the RateLimitBucket objects getBucket has made, in the order of their creation
  clearing,     \* where the clearAll call is, the bucket whose reset it awaits, the buckets of the table when it was called
  info,         \* what the last getBucketInfo call returned
  used,         \* the keys getBucket has resolved on behalf of a caller
  cleared       \* whether clearAll has emptied the table

tableVars == <<heap, clearing, info, used, cleared>>

VARIABLES
  sessionState,        \* the state of the session manager
  transport,           \* the WebSocket: "closed", "opening" or "open"
  sessionId,           \* Session.sessionId
  lastSeq,             \* Session.lastSeq
  heartbeat,           \* heartbeatIntervalMs, whether the timer runs, whether a heartbeat sent awaits its ack
  reconnectAttempt,    \* Session.reconnectAttempt
  maxReconnectAttempts,\* FluxorConfig.maxReconnectAttempts
  closed,              \* the close that ended the last connection: its code, what shouldReconnect said of it
  sent,                \* the frame the client sent last
  fatal,               \* fatal notifications emitted
  delivered,           \* dispatch frames handed to listeners in this session, each with lastSeq at that moment
  received,            \* the same frames as they came off the wire
  gwEvent,             \* what the session manager handled last
  sockets,             \* transports that are opening or open
  backoffs,            \* backoff waits that are pending
  closePending         \* whether the close event of a transport the client closed itself is still to come

gwVars == <<sessionState, transport, sessionId, lastSeq, heartbeat,
            reconnectAttempt, maxReconnectAttempts, closed, sent, fatal,
            delivered, received, gwEvent, sockets, backoffs, closePending>>

VARIABLES
  ignored,      \* the suppression set: FluxorConfig.ignoredGatewayEvents
  registry,     \* the listeners registered, in the order of their registration
  nextId,       \* the number the next registration gets
  promises,     \* the promise of each waitFor call, and whether its timer is armed
  run,          \* the last frame dispatched: event, payload, the listeners invoked in order
  reported,     \* listener errors reported
  dispatched    \* frames the dispatch loop has handled

dispVars == <<ignored, registry, nextId, promises, run, reported, dispatched>>

limiterVars == <<bucketVars, keyVars, tableVars>>

VARIABLES
  tok,          \* the last call of validateToken or getGatewayToken: its token, whether it threw, what it returned
  builder,      \* the EmbedBuilder's fields; texts are kept by their length
  embCall       \* the last call on the EmbedBuilder: its arguments, whether it threw, the Embed build() returned

utilVars == <<tok, builder, embCall>>

clientVars == <<dispVars, utilVars>>

VARIABLES
  inv,          \* the execute calls: message, command found, position, what ran with its outcome, result
  modContext    \* the context field of the module: the invocation whose CommandContext it holds

cmdVars == <<inv, modContext>>

VARIABLES
  user,         \* Client.user
  guilds,       \* Client.guilds
  channels,     \* Client.channels
  users,        \* Client.users
  readyAt,      \* Client._readyAt: whether it is set
  events        \* the gateway events the client has handled and its destroy calls, in order

cacheVars == <<user, guilds, channels, users, readyAt, events>>

appVars == <<cmdVars, cacheVars>>

vars == <<limiterVars, gwVars, clientVars, appVars>>

\* What the rate limiter leaves alone, what the session manager does, and what
\* the event dispatcher does.
outsideLimiter == <<gwVars, clientVars, appVars>>
outsideGateway == <<limiterVars, clientVars, appVars>>
outsideDispatcher == <<limiterVars, gwVars, utilVars, appVars>>
outsideToken == <<limiterVars, gwVars, dispVars, builder, embCall, appVars>>
outsideEmbed == <<limiterVars, gwVars, dispVars, tok, appVars>>
outsideCommands == <<limiterVars, gwVars, clientVars, cacheVars>>
outsideCache == <<limiterVars, gwVars, clientVars, cmdVars>>

\* What an action on the bucket leaves alone, and what getBucket leaves alone.
outsideBucket == <<keyVars, tableVars, outsideLimiter>>
outsideKeys == <<bucketVars, outsideLimiter>>

Max(a, b) == IF a >= b THEN a ELSE b

\* Infinity, as a number above every limit and every count.
Infinity == 999999

Ops == {"acquire", "getRemaining", "getResetTime", "reset"}

\* ------------------------------------------------------- RateLimitBucket

\* Mutant of Prune: an `if` in place of the `while`.
PruneOnce(ts, cutoff) ==
  IF Len(ts) > 0 /\ Head(ts) < cutoff THEN Tail(ts) ELSE ts

\* _prune: shift from the head while the head is older than the cutoff.
RECURSIVE Prune(_, _)
Prune(ts, cutoff) ==
  IF Len(ts) > 0 /\ Head(ts) < cutoff THEN Prune(Tail(ts), cutoff) ELSE ts

\* Mutant of TryAcquire: `<=` in place of `<` in the capacity test.
TryAcquireOffByOne(ts, now1, now2) ==
  LET p == Prune(ts, now1 - windowMs) IN
  IF Len(p) <= limit
    THEN [ts |-> Append(p, now2), ret |-> 0, recorded |-> TRUE, threw |-> FALSE]
    ELSE [ts |-> p, ret |-> Max(0, Head(p) + windowMs - now2), recorded |-> FALSE, threw |-> FALSE]

\* Mutant of TryAcquire: the wait is computed from the newest timestamp.
TryAcquireFromNewest(ts, now1, now2) ==
  LET p == Prune(ts, now1 - windowMs) IN
  IF Len(p) < limit
    THEN [ts |-> Append(p, now2), ret |-> 0, recorded |-> TRUE, threw |-> FALSE]
    ELSE [ts |-> p, ret |-> Max(0, p[Len(p)] + windowMs - now2), recorded |-> FALSE, threw |-> FALSE]

\* Mutant of TryAcquire: the timestamp is pruned at the boundary too.
TryAcquirePruneAtBoundary(ts, now1, now2) ==
  LET p == Prune(ts, now1 - windowMs + 1) IN
  IF Len(p) < limit
    THEN [ts |-> Append(p, now2), ret |-> 0, recorded |-> TRUE, threw |-> FALSE]
    ELSE [ts |-> p, ret |-> Max(0, Head(p) + windowMs - now2), recorded |-> FALSE, threw |-> FALSE]

\* Mutant of TryAcquire: the timestamp is put at the head.
TryAcquireUnshift(ts, now1, now2) ==
  LET p == Prune(ts, now1 - windowMs) IN
  IF Len(p) < limit
    THEN [ts |-> <<now2>> \o p, ret |-> 0, recorded |-> TRUE, threw |-> FALSE]
    ELSE [ts |-> p, ret |-> Max(0, Head(p) + windowMs - now2), recorded |-> FALSE, threw |-> FALSE]

\* Mutant of TryAcquire: a full bucket throws instead of returning the wait.
TryAcquireThrows(ts, now1, now2) ==
  LET p == Prune(ts, now1 - windowMs) IN
  IF Len(p) < limit
    THEN [ts |-> Append(p, now2), ret |-> 0, recorded |-> TRUE, threw |-> FALSE]
    ELSE [ts |-> p, ret |-> 0, recorded |-> FALSE, threw |-> TRUE]

\* _tryAcquire of a bucket of limit lim and window win, with now1 the clock read
\* by _prune and now2 the next read.  The result is the completion of the
\* callback: the timestamps it leaves, the value it returns, whether it pushed
\* a timestamp, whether it threw.
TryAcquireIn(lim, win, ts, now1, now2) ==
  LET p == Prune(ts, now1 - win) IN
  IF Len(p) < lim
    THEN [ts |-> Append(p, now2), ret |-> 0, recorded |-> TRUE, threw |-> FALSE]
    ELSE [ts |-> p, ret |-> Max(0, Head(p) + win - now2), recorded |-> FALSE, threw |-> FALSE]

\* _tryAcquire of the bucket of limit and windowMs.
TryAcquire(ts, now1, now2) == TryAcquireIn(limit, windowMs, ts, now1, now2)

\* Mutant of GetRemaining: the count is taken without pruning first.
GetRemainingNoPrune(ts, now1, now2) ==
  [ts |-> ts, ret |-> limit - Len(ts), recorded |-> FALSE, threw |-> FALSE]

\* The callback of getRemaining.
GetRemainingIn(lim, win, ts, now1, now2) ==
  LET p == Prune(ts, now1 - win) IN
  [ts |-> p, ret |-> lim - Len(p), recorded |-> FALSE, threw |-> FALSE]

GetRemaining(ts, now1, now2) == GetRemainingIn(limit, windowMs, ts, now1, now2)

\* The callback of getResetTime.
GetResetTimeIn(lim, win, ts, now1, now2) ==
  LET p == Prune(ts, now1 - win) IN
  IF Len(p) = 0
    THEN [ts |-> p, ret |-> 0, recorded |-> FALSE, threw |-> FALSE]
    ELSE [ts |-> p, ret |-> Max(0, Head(p) + win - now2), recorded |-> FALSE, threw |-> FALSE]

GetResetTime(ts, now1, now2) == GetResetTimeIn(limit, windowMs, ts, now1, now2)

\* The callback of reset: this._timestamps.length = 0.
Reset(ts, now1, now2) ==
  [ts |-> <<>>, ret |-> 0, recorded |-> FALSE, threw |-> FALSE]

\* The callback each public method hands to _enqueue.
Apply(op, ts, now1, now2) ==
  CASE op = "acquire"      -> TryAcquire(ts, now1, now2)
    [] op = "getRemaining" -> GetRemaining(ts, now1, now2)
    [] op = "getResetTime" -> GetResetTime(ts, now1, now2)
    [] op = "reset"        -> Reset(ts, now1, now2)

\* The same callbacks, of a bucket object b of the heap.
ApplyIn(b, op, now1, now2) ==
  CASE op = "acquire"      -> TryAcquireIn(b.limit, b.windowMs, b.timestamps, now1, now2)
    [] op = "getRemaining" -> GetRemainingIn(b.limit, b.windowMs, b.timestamps, now1, now2)
    [] op = "getResetTime" -> GetResetTimeIn(b.limit, b.windowMs, b.timestamps, now1, now2)
    [] op = "reset"        -> Reset(b.timestamps, now1, now2)

\* Whether the callback reads Date.now() a second time after _prune.
ReadsTwiceIn(win, op, ts, now1) ==
  \/ op = "acquire"
  \/ op = "getResetTime" /\ Len(Prune(ts, now1 - win)) > 0

ReadsTwice(op, ts, now1) == ReadsTwiceIn(windowMs, op, ts, now1)

\* The entries of a sequence of times that are less than windowMs before t.
Recent(times, t) == SelectSeq(times, LAMBDA x : x > t - windowMs)

\* The first window of the bucket, started at time t, as seen at time now.
FirstWindow(t, now) == IF t >= 0 /\ now < t + windowMs THEN t ELSE -1

\* Mutant of Enqueue: _queuePromise is never advanced, so every callback is
\* chained on the promise the constructor made.
EnqueueUnchained(c, op) ==
  /\ pending' = Append(pending, [caller |-> c, op |-> op, blocked |-> FALSE])
  /\ queuePromise' = queuePromise

\* _enqueue: run = _queuePromise.then(fn); _queuePromise = run.then(noop, noop).
\* The new callback is chained on the promise _queuePromise holds at the call: it
\* is blocked while that promise is pending, that is, until the callback
\* enqueued just before it has run.
Enqueue(c, op) ==
  /\ pending' = Append(pending, [caller |-> c, op |-> op, blocked |-> (queuePromise = "pending")])
  /\ queuePromise' = "pending"

\* A .then callback may run once the promise it was chained on has settled.
Runnable(i) == ~pending[i].blocked

\* The queue q without its i-th callback, whose run has settled: the callback
\* chained on it is released.
SettleIn(q, i) ==
  [j \in 1..(Len(q) - 1) |->
     IF j < i THEN q[j]
     ELSE IF j = i THEN [q[j + 1] EXCEPT !.blocked = FALSE]
     ELSE q[j + 1]]

Settle(i) == SettleIn(pending, i)

\* The promise chain runs one callback: fn runs to completion and `run` settles
\* with its result, which an awaiting waitForRateLimit receives; were `run`
\* rejected, the await would throw and waitForRateLimit's promise reject.
RunOp(i, d) ==
  /\ i \in 1..Len(pending)
  /\ Runnable(i)
  /\ d > 0 => clock + d <= MaxTime /\ ReadsTwice(pending[i].op, timestamps, clock)
  /\ LET p == pending[i]
         r == Apply(p.op, timestamps, clock, clock + d) IN
       /\ timestamps' = r.ts
       /\ clock' = clock + d
       /\ pending' = Settle(i)
       /\ queuePromise' = IF i = Len(pending) THEN "settled" ELSE queuePromise
       /\ resolved' = IF p.caller = Direct \/ r.threw THEN resolved
                      ELSE [resolved EXCEPT ![p.caller] = TRUE]
       /\ pc' = IF p.caller = Direct \/ ~r.threw THEN pc
                ELSE [pc EXCEPT ![p.caller] = "rejected"]
       /\ waitMs' = IF p.caller = Direct THEN waitMs
                    ELSE [waitMs EXCEPT ![p.caller] = r.ret]
       /\ last' = [op |-> p.op, pos |-> i, now |-> clock + d, ret |-> r.ret,
                   recorded |-> r.recorded]
       /\ acqCount' = IF p.op = "reset" THEN 0
                      ELSE IF p.op = "acquire" /\ acqCount < limit THEN acqCount + 1
                      ELSE acqCount
       /\ firstAcq' = IF p.op = "reset" THEN -1
                      ELSE IF p.op = "acquire" /\ acqCount = 0 THEN clock + d
                      ELSE FirstWindow(firstAcq, clock + d)
       /\ returned' = Recent(returned, clock + d)
  /\ UNCHANGED <<limit, windowMs, wake, acquireCalls, sleeps,
                 outsideBucket>>

\* ------------------------------------------------------ RateLimitManager

\* waitForRateLimit returns to its caller, who goes on to send the request.
Return(c) ==
  /\ pc' = [pc EXCEPT ![c] = "done"]
  /\ returned' = Append(returned, clock)
  /\ resolved' = [resolved EXCEPT ![c] = FALSE]
  /\ waitMs' = [waitMs EXCEPT ![c] = 0]
  /\ wake' = [wake EXCEPT ![c] = 0]
  /\ UNCHANGED <<queuePromise, pending, acquireCalls, sleeps,
                 outsideBucket>>

\* await sleep(waitMs): setTimeout(resolve, ms).
Sleep(c, next) ==
  /\ pc' = [pc EXCEPT ![c] = next]
  /\ wake' = [wake EXCEPT ![c] = clock + waitMs[c]]
  /\ sleeps' = [sleeps EXCEPT ![c] = @ + 1]
  /\ resolved' = [resolved EXCEPT ![c] = FALSE]
  /\ UNCHANGED <<queuePromise, pending, waitMs, acquireCalls, returned,
                 outsideBucket>>

\* waitForRateLimit(bucket) of an enabled manager: let waitMs = await bucket.acquire()
CallWait(c) ==
  /\ enabled
  /\ pc[c] = "idle"
  /\ IF c = 1 THEN TRUE ELSE pc[c - 1] # "idle"
  /\ pc' = [pc EXCEPT ![c] = "await1"]
  /\ acquireCalls' = [acquireCalls EXCEPT ![c] = 1]
  /\ Enqueue(c, "acquire")
  /\ UNCHANGED <<limit, windowMs, clock, timestamps, resolved, waitMs, wake,
                 sleeps, returned, last, acqCount, firstAcq,
                 outsideBucket>>

\* if (waitMs > 0) { await sleep(waitMs); ... }  after the first acquire
AfterFirstAcquire(c) ==
  /\ pc[c] = "await1"
  /\ resolved[c]
  /\ IF waitMs[c] > 0 THEN Sleep(c, "sleep1") ELSE Return(c)
  /\ UNCHANGED <<limit, windowMs, clock, timestamps, last, acqCount, firstAcq,
                 outsideBucket>>

\* the first sleep is over: waitMs = await bucket.acquire()
Retry(c) ==
  /\ pc[c] = "sleep1"
  /\ clock >= wake[c]
  /\ pc' = [pc EXCEPT ![c] = "await2"]
  /\ wake' = [wake EXCEPT ![c] = 0]
  /\ acquireCalls' = [acquireCalls EXCEPT ![c] = @ + 1]
  /\ Enqueue(c, "acquire")
  /\ UNCHANGED <<limit, windowMs, clock, timestamps, resolved, waitMs, sleeps,
                 returned, last, acqCount, firstAcq,
                 outsideBucket>>

\* if (waitMs > 0) { await sleep(waitMs); }  after the second acquire
AfterSecondAcquire(c) ==
  /\ pc[c] = "await2"
  /\ resolved[c]
  /\ IF waitMs[c] > 0 THEN Sleep(c, "sleep2") ELSE Return(c)
  /\ UNCHANGED <<limit, windowMs, clock, timestamps, last, acqCount, firstAcq,
                 outsideBucket>>

\* Mutant of AfterSecondSleep: the function retries until it is admitted.
AfterSecondSleepRetry(c) ==
  /\ pc[c] = "sleep2"
  /\ clock >= wake[c]
  /\ pc' = [pc EXCEPT ![c] = "await2"]
  /\ wake' = [wake EXCEPT ![c] = 0]
  /\ acquireCalls' = [acquireCalls EXCEPT ![c] = @ + 1]
  /\ Enqueue(c, "acquire")
  /\ UNCHANGED <<limit, windowMs, clock, timestamps, resolved, waitMs, sleeps,
                 returned, last, acqCount, firstAcq,
                 outsideBucket>>

\* the second sleep is over: the function ends
AfterSecondSleep(c) ==
  /\ pc[c] = "sleep2"
  /\ clock >= wake[c]
  /\ Return(c)
  /\ UNCHANGED <<limit, windowMs, clock, timestamps, last, acqCount, firstAcq,
                 outsideBucket>>

\* Code calls one of the bucket's public methods directly.
CallOp(op) ==
  /\ Len(pending) < MaxQueue
  /\ Enqueue(Direct, op)
  /\ UNCHANGED <<limit, windowMs, clock, timestamps, pc, resolved, waitMs, wake,
                 acquireCalls, sleeps, returned, last, acqCount, firstAcq,
                 outsideBucket>>

\* Time passes.  Past MaxTime the clock only moves while a timer is still due.
Tick ==
  /\ \/ clock < MaxTime
     \/ \E c \in Callers : pc[c] \in {"sleep1", "sleep2"} /\ wake[c] > clock
  /\ clock' = clock + 1
  /\ returned' = Recent(returned, clock + 1)
  /\ firstAcq' = FirstWindow(firstAcq, clock + 1)
  /\ UNCHANGED <<limit, windowMs, timestamps, queuePromise, pending,
                 pc, resolved, waitMs, wake, acquireCalls, sleeps,
                 last, acqCount,
                 outsideBucket>>

InitBucket ==
  /\ limit \in 1..MaxLimit
  /\ windowMs \in 1..MaxWindow
  /\ clock = 0
  /\ timestamps = <<>>
  /\ queuePromise = "settled"
  /\ pending = <<>>
  /\ pc = [c \in Callers |-> "idle"]
  /\ resolved = [c \in Callers |-> FALSE]
  /\ waitMs = [c \in Callers |-> 0]
  /\ wake = [c \in Callers |-> 0]
  /\ acquireCalls = [c \in Callers |-> 0]
  /\ sleeps = [c \in Callers |-> 0]
  /\ returned = <<>>
  /\ last = [op |-> "none", pos |-> 0, now |-> 0, ret |-> 0, recorded |-> FALSE]
  /\ acqCount = 0
  /\ firstAcq = -1

\* ---------------------------------------------- RateLimitManager.getBucket

Sep == "::"

\* The placeholders getBucket knows, in the order it substitutes them, each
\* with the field of BucketParams that supplies its value.
Placeholders ==
  << [name |-> "channel_id",  param |-> "channelId"],
     [name |-> "guild_id",    param |-> "guildId"],
     [name |-> "user_id",     param |-> "userId"],
     [name |-> "target_id",   param |-> "targetId"],
     [name |-> "webhook_id",  param |-> "webhookId"],
     [name |-> "invite_code", param |-> "inviteCode"] >>

\* String.prototype.indexOf, 1-based: where pat first occurs in s, 0 if nowhere.
IndexOf(s, pat) ==
  LET at == {i \in 1..(Len(s) - Len(pat) + 1) : SubSeq(s, i, i + Len(pat) - 1) = pat} IN
  IF at = {} THEN 0 ELSE CHOOSE i \in at : \A j \in at : i <= j

\* String.prototype.includes
Includes(s, pat) == IndexOf(s, pat) # 0

\* String.prototype.replace with a string pattern: the first occurrence only.
ReplaceFirst(s, pat, by) ==
  LET i == IndexOf(s, pat) IN
  IF i = 0 THEN s
  ELSE SubSeq(s, 1, i - 1) \o by \o SubSeq(s, i + Len(pat), Len(s))

\* Mutant of Substitute: the `params.x &&` test is missing, so an absent value
\* is written into the key as "undefined".
SubstituteUnguarded(key, value, name) ==
  IF Includes(key, <<Sep, name>>)
    THEN ReplaceFirst(key, <<Sep, name>>,
                      <<Sep>> \o (IF value = <<>> THEN <<"undefined">> ELSE value))
    ELSE key

\* if (params.x && key.includes("::x_id")) key = key.replace("::x_id", `::${params.x}`)
\* An absent value and the empty string are both falsy: both are <<>>.
Substitute(key, value, name) ==
  IF value # <<>> /\ Includes(key, <<Sep, name>>)
    THEN ReplaceFirst(key, <<Sep, name>>, <<Sep>> \o value)
    ELSE key

\* The six substitutions of getBucket, one after the other on the running key.
RECURSIVE SubstituteFrom(_, _, _)
SubstituteFrom(key, params, k) ==
  IF k > Len(Placeholders) THEN key
  ELSE SubstituteFrom(Substitute(key, params[Placeholders[k].param], Placeholders[k].name),
                      params, k + 1)

ResolveKey(bucket, params) == SubstituteFrom(bucket, params, 1)

\* The key of no bucket: what the lookup records when getBucket returns null.
NoBucket == <<>>

\* null, where a RateLimitBucket is expected; the objects are 1, 2, ... in heap.
Null == 0

\* new RateLimitBucket(key, config.limit, config.windowMs, ...)
NewBucket(key, config) ==
  [bucketKey |-> key, limit |-> config.limit, windowMs |-> config.windowMs,
   timestamps |-> <<>>, queuePromise |-> "settled", pending |-> <<>>]

\* Mutant of Existing: the table is never consulted.
ExistingNever(key) == Null

\* this._buckets.get(key)
Existing(key) == IF key \in DOMAIN buckets THEN buckets[key] ELSE Null

\* this._buckets.set(key, bucket)
MapSet(map, key, bucket) ==
  [k \in DOMAIN map \cup {key} |-> IF k = key THEN bucket ELSE map[k]]

\* getBucket(config, params); at most MaxBuckets buckets are ever made.
GetBucket(config, params) ==
  /\ enabled => \/ Existing(ResolveKey(config.bucket, params)) # Null
                \/ Len(heap) < MaxBuckets
  /\ IF ~enabled
       THEN /\ lookup' = [template |-> config.bucket, params |-> params,
                          key |-> NoBucket, bucket |-> Null]
            /\ UNCHANGED <<buckets, heap, used>>
       ELSE LET key == ResolveKey(config.bucket, params)
                bucket == Existing(key) IN
            /\ used' = used \cup {key}
            /\ IF bucket # Null
                 THEN /\ lookup' = [template |-> config.bucket, params |-> params,
                                    key |-> key, bucket |-> bucket]
                      /\ UNCHANGED <<buckets, heap>>
                 ELSE /\ heap' = Append(heap, NewBucket(key, config))
                      /\ buckets' = MapSet(buckets, key, Len(heap) + 1)
                      /\ lookup' = [template |-> config.bucket, params |-> params,
                                    key |-> key, bucket |-> Len(heap) + 1]
  /\ UNCHANGED <<enabled, clearing, info, cleared, outsideKeys>>

\* Route configurations of RateLimitMappings.
SendTemplate == <<"channels", Sep, "channel_id", Sep, "messages", Sep, "send">>
Configs ==
  { [bucket |-> <<"global">>, limit |-> 50, windowMs |-> 1000],
    [bucket |-> SendTemplate, limit |-> 5, windowMs |-> 5000],
    [bucket |-> <<"guilds", Sep, "guild_id", Sep, "channels">>, limit |-> 5, windowMs |-> 10000] }

\* The dynamic ids callers pass: absent, two ids, and for the channel a value
\* that reads like another placeholder.
ParamSets ==
  [ channelId : {<<>>, <<"123">>, <<"456">>, <<"guild_id">>},
    guildId : {<<>>, <<"123">>, <<"456">>},
    userId : {<<>>},
    targetId : {<<>>},
    webhookId : {<<>>},
    inviteCode : {<<>>} ]

NoParams ==
  [channelId |-> <<>>, guildId |-> <<>>, userId |-> <<>>, targetId |-> <<>>,
   webhookId |-> <<>>, inviteCode |-> <<>>]

InitKeys ==
  /\ enabled \in BOOLEAN
  /\ buckets = <<>>
  /\ lookup = [template |-> <<>>, params |-> NoParams, key |-> NoBucket, bucket |-> Null]
  /\ heap = <<>>
  /\ clearing = [pc |-> "idle", at |-> Null, started |-> {}]
  /\ info = [called |-> FALSE, remaining |-> 0, resetMs |-> 0]
  /\ used = {}
  /\ cleared = FALSE

\* ------------------------------------------------------ the gateway session

\* No session id, no sequence number, no frame, no close yet.
NoSession == "none"
NoSeq == -1
NoFrame == [op |-> "none"]
NoClose == [code |-> 0, reconnect |-> TRUE]

\* maxReconnectAttempts: Infinity by default, or a number the application sets.
AttemptLimits == {1, Infinity}

\* The session manager as constructed: Idle, with an empty session.
InitGateway ==
  /\ sessionState = "Idle"
  /\ transport = "closed"
  /\ sessionId = NoSession
  /\ lastSeq = NoSeq
  /\ heartbeat = [intervalMs |-> 0, running |-> FALSE, awaitingAck |-> FALSE]
  /\ reconnectAttempt = 0
  /\ maxReconnectAttempts \in AttemptLimits
  /\ closed = NoClose
  /\ sent = NoFrame
  /\ fatal = 0
  /\ delivered = <<>>
  /\ received = <<>>
  /\ gwEvent = "none"
  /\ sockets = 0
  /\ backoffs = 0
  /\ closePending = FALSE

\* Event names, with the payloads a frame can carry.
EventNames == {"MESSAGE_CREATE", "TYPING_START"}
Payloads == {1, 2}

NoPromise == [state |-> "none", settles |-> 0, value |-> 0, armed |-> FALSE]
NoRun == [event |-> "none", payload |-> 0, ids |-> <<>>, alive |-> TRUE]

\* The event dispatcher as constructed: no listener, and the suppression set of
\* the configuration.
InitDispatcher ==
  /\ ignored \in {{}, {"TYPING_START"}}
  /\ registry = <<>>
  /\ nextId = 1
  /\ promises = [i \in 1..MaxListeners |-> NoPromise]
  /\ run = NoRun
  /\ reported = 0
  /\ dispatched = 0

\* No call made yet.
NoToken == [op |-> "none", token |-> <<>>, threw |-> FALSE, result |-> <<>>]

\* A text that is not set (undefined), and a null passed for a text.
NoText == -1
NullText == -2

NoEmbed == [title |-> NoText, description |-> NoText, footer |-> NoText,
            author |-> NoText, fields |-> <<>>]
NoEmbedCall == [op |-> "none", args |-> <<>>, threw |-> FALSE, embed |-> NoEmbed]

\* No execute call made.
\* A message without member_permissions.
NoPermissions == <<"undefined">>
NoMessage == [prefix |-> FALSE, name |-> "", args |-> 0, member_permissions |-> NoPermissions]
NoResult == [state |-> "pending", success |-> FALSE, error |-> "none"]
NoInvocation == [pc |-> "idle", message |-> NoMessage, cmd |-> Null, k |-> 0,
                 log |-> <<>>, result |-> NoResult]

\* A CommandService with its commands registered and no message executed.
InitCommands ==
  /\ inv = [i \in 1..NumInvocations |-> NoInvocation]
  /\ modContext = Null

\* Client.user when it is null.
NoUser == [id |-> "null"]

\* A new Client.
InitCache ==
  /\ user = NoUser
  /\ guilds = <<>>
  /\ channels = <<>>
  /\ users = <<>>
  /\ readyAt = FALSE
  /\ events = <<>>

\* A new EmbedBuilder, no token call made, no command executed, empty caches.
InitUtil ==
  /\ tok = NoToken
  /\ builder = NoEmbed
  /\ embCall = NoEmbedCall
  /\ InitCommands
  /\ InitCache

\* The rest of the client, as constructed with the default configuration.
InitClient == InitDispatcher /\ ignored = {} /\ InitUtil

\* The rate limiter, beside a session manager of the default configuration.
Init ==
  /\ InitBucket /\ InitKeys /\ InitGateway /\ InitClient
  /\ maxReconnectAttempts = Infinity

\* One bucket of an enabled manager, of any limit and window.
InitOneBucket == Init /\ enabled

\* A manager with an empty table, enabled or not.
InitTable == Init /\ limit = 1 /\ windowMs = 1

\* ------------------------------------------- the buckets of the table

\* Mutant of Update: _timestamps and _queuePromise are static, one array and
\* one chain for all the buckets.
UpdateShared(h, b, obj) ==
  [i \in DOMAIN h |->
     IF i = b THEN obj
     ELSE [h[i] EXCEPT !.timestamps = obj.timestamps,
                       !.queuePromise = obj.queuePromise,
                       !.pending = obj.pending]]

\* The heap after a method of bucket b has left it as obj: _timestamps and
\* _queuePromise are fields of the instance.
Update(h, b, obj) == [h EXCEPT ![b] = obj]

\* _enqueue on the bucket object obj, called by c.
EnqueueOn(obj, c, op) ==
  [obj EXCEPT !.pending = Append(@, [caller |-> c, op |-> op,
                                     blocked |-> (obj.queuePromise = "pending")]),
              !.queuePromise = "pending"]

\* The bucket object obj after its promise chain has run its i-th callback.
RunOn(obj, i, now1, now2) ==
  [obj EXCEPT !.timestamps = ApplyIn(obj, obj.pending[i].op, now1, now2).ts,
              !.pending = SettleIn(obj.pending, i),
              !.queuePromise = IF i = Len(obj.pending) THEN "settled" ELSE @]

\* The callbacks and timestamps the buckets hold, all together.
RECURSIVE Load(_, _)
Load(h, b) ==
  IF b > Len(h) THEN 0
  ELSE Len(h[b].pending) + Len(h[b].timestamps) + Load(h, b + 1)

\* Code that holds bucket b calls one of its public methods.
TableCall(b, op) ==
  /\ b \in 1..Len(heap)
  /\ Load(heap, 1) < MaxLoad
  /\ heap' = Update(heap, b, EnqueueOn(heap[b], "direct", op))
  /\ UNCHANGED <<keyVars, clearing, info, used, cleared, outsideKeys>>

\* The promise chain of bucket b runs one callback.
TableRun(b, i, d) ==
  /\ b \in 1..Len(heap)
  /\ i \in 1..Len(heap[b].pending)
  /\ ~heap[b].pending[i].blocked
  /\ d > 0 => /\ clock + d <= MaxTime
              /\ ReadsTwiceIn(heap[b].windowMs, heap[b].pending[i].op,
                              heap[b].timestamps, clock)
  /\ heap' = Update(heap, b, RunOn(heap[b], i, clock, clock + d))
  /\ clock' = clock + d
  /\ returned' = Recent(returned, clock + d)
  /\ firstAcq' = FirstWindow(firstAcq, clock + d)
  /\ clearing' = IF heap[b].pending[i].caller = "clearAll"
                   THEN [clearing EXCEPT !.pc = "resume"]
                   ELSE clearing
  /\ UNCHANGED <<keyVars, info, used, cleared,
                 limit, windowMs, timestamps, queuePromise, pending, pc,
                 resolved, waitMs, wake, acquireCalls, sleeps, last, acqCount,
                 outsideLimiter>>

\* The buckets a Map iteration that has reached object `at` has yet to visit:
\* the values of the table in insertion order, which is their order in heap.
Unvisited(at) == {buckets[k] : k \in DOMAIN buckets} \ (0..at)

\* The first of a non-empty set of bucket objects.
First(S) == CHOOSE b \in S : \A o \in S : b <= o

\* clearAll goes on to the next bucket of the iteration and awaits its
\* reset, or, the iteration over, empties the table and returns.
ClearAllStep(at, started) ==
  IF Unvisited(at) = {}
    THEN /\ buckets' = <<>>
         /\ cleared' = TRUE
         /\ clearing' = [pc |-> "idle", at |-> Null, started |-> {}]
         /\ heap' = heap
    ELSE LET b == First(Unvisited(at)) IN
         /\ heap' = Update(heap, b, EnqueueOn(heap[b], "clearAll", "reset"))
         /\ clearing' = [pc |-> "await", at |-> b, started |-> started]
         /\ UNCHANGED <<buckets, cleared>>

\* clearAll() is called; one call at a time, and none after the table has
\* been emptied.
ClearAllCall ==
  /\ clearing.pc = "idle"
  /\ ~cleared
  /\ ClearAllStep(Null, {buckets[k] : k \in DOMAIN buckets})
  /\ UNCHANGED <<enabled, lookup, info, used, outsideKeys>>

\* The reset clearAll awaited has run: the loop goes on.
ClearAllNext ==
  /\ clearing.pc = "resume"
  /\ ClearAllStep(clearing.at, clearing.started)
  /\ UNCHANGED <<enabled, lookup, info, used, outsideKeys>>

\* if (!this._enabled || !bucket): waitForRateLimit and getBucketInfo do
\* nothing with the bucket.
Skips(b) == ~enabled \/ b = Null

\* Mutant of InfoWhenSkipped: no capacity is reported.
InfoWhenSkippedZero == [called |-> TRUE, remaining |-> 0, resetMs |-> 0]

\* return { remaining: Infinity, resetMs: 0 }
InfoWhenSkipped == [called |-> TRUE, remaining |-> Infinity, resetMs |-> 0]

\* waitForRateLimit(b) of a disabled manager, or with no bucket: it returns.
WaitSkipped(c, b) ==
  /\ pc[c] = "idle"
  /\ IF c = 1 THEN TRUE ELSE pc[c - 1] # "idle"
  /\ Skips(b)
  /\ Return(c)
  /\ UNCHANGED <<limit, windowMs, clock, timestamps, last, acqCount, firstAcq>>

\* getBucketInfo(b) of a disabled manager, or with no bucket.
GetBucketInfoSkipped(b) ==
  /\ Skips(b)
  /\ info' = InfoWhenSkipped
  /\ UNCHANGED <<keyVars, heap, clearing, used, cleared, outsideKeys>>

\* Two routes whose keys meet: guilds.get with a guild id that ends in
\* "::members" and guilds.members.get.
TableConfigs ==
  { [bucket |-> <<"guilds", Sep, "guild_id", Sep, "get">>, limit |-> 5, windowMs |-> 10000],
    [bucket |-> <<"guilds", Sep, "guild_id", Sep, "members", Sep, "get">>,
     limit |-> 10, windowMs |-> 10000] }

TableParams ==
  { [NoParams EXCEPT !.guildId = g] : g \in {<<"123">>, <<"123", Sep, "members">>} }

\* An enabled manager with an empty table.
InitEnabled == InitTable /\ enabled

\* A disabled manager.
InitDisabled == InitTable /\ ~enabled

\* The table of an enabled manager and the buckets in it, used by code that
\* holds them.
NextTable ==
  \/ \E config \in TableConfigs, params \in TableParams : GetBucket(config, params)
  \/ \E b \in 1..Len(heap), op \in Ops : TableCall(b, op)
  \/ \E b \in 1..Len(heap), i \in 1..MaxQueue, d \in 0..MaxDrift : TableRun(b, i, d)
  \/ ClearAllCall
  \/ ClearAllNext
  \/ Tick

SpecTable == InitEnabled /\ [][NextTable]_vars

\* The calls of a manager made with enableRateLimiting off.
NextDisabled ==
  \/ \E config \in Configs, params \in TableParams : GetBucket(config, params)
  \/ \E c \in Callers, b \in 0..Len(heap) : WaitSkipped(c, b)
  \/ \E b \in 0..Len(heap) : GetBucketInfoSkipped(b)
  \/ ClearAllCall

SpecDisabled == InitDisabled /\ [][NextDisabled]_vars

\* The bucket used through its public methods.
NextBucket ==
  \/ \E op \in Ops : CallOp(op)
  \/ \E i \in 1..Len(pending), d \in 0..MaxDrift : RunOp(i, d)
  \/ Tick

SpecBucket == InitOneBucket /\ [][NextBucket]_vars

\* The bucket used through RateLimitManager.waitForRateLimit.
NextManager ==
  \/ \E c \in Callers : CallWait(c)
  \/ \E c \in Callers : AfterFirstAcquire(c)
  \/ \E c \in Callers : Retry(c)
  \/ \E c \in Callers : AfterSecondAcquire(c)
  \/ \E c \in Callers : AfterSecondSleep(c)
  \/ \E i \in 1..Len(pending), d \in 0..MaxDrift : RunOp(i, d)
  \/ Tick

SpecManager == InitOneBucket /\ [][NextManager]_vars

\* Buckets looked up through RateLimitManager.getBucket.
NextKeys ==
  \E config \in Configs, params \in ParamSets : GetBucket(config, params)

SpecKeys == InitTable /\ [][NextKeys]_vars

\* The event loop keeps running: time passes, due callbacks and timers run.
FairSpecManager ==
  /\ SpecManager
  /\ WF_vars(Tick)
  /\ WF_vars(\E i \in 1..Len(pending), d \in 0..MaxDrift : RunOp(i, d))
  /\ \A c \in Callers :
       /\ WF_vars(AfterFirstAcquire(c))
       /\ WF_vars(Retry(c))
       /\ WF_vars(AfterSecondAcquire(c))
       /\ WF_vars(AfterSecondSleep(c))

\* ------------------------------------------------ gateway close codes

\* enum FluxorCloseCode
FluxorCloseCode ==
  [UnknownError |-> 4000, UnknownOpCode |-> 4001, DecodeError |-> 4002,
   NotAuthenticated |-> 4003, AuthenticationFailed |-> 4004,
   AlreadyAuthenticated |-> 4005, InvalidSequence |-> 4007, RateLimited |-> 4008,
   SessionTimedOut |-> 4009, InvalidShard |-> 4010, ShardingRequired |-> 4011,
   InvalidApiVersion |-> 4012, InvalidIntents |-> 4013, DisallowedIntents |-> 4014]

\* Mutant of ShouldReconnect: the case DisallowedIntents is missing.
ShouldReconnectButOne(code) ==
  IF code \in {FluxorCloseCode.AuthenticationFailed, FluxorCloseCode.InvalidShard,
               FluxorCloseCode.ShardingRequired, FluxorCloseCode.InvalidApiVersion,
               FluxorCloseCode.InvalidIntents}
    THEN FALSE
    ELSE TRUE

\* Mutant of ShouldReconnect: every close is answered by a reconnect.
ShouldReconnectAlways(code) == TRUE

\* Mutant of ShouldReconnect: every 4000-range code is taken as fatal.
ShouldReconnectOutside4000(code) == code < 4000

\* shouldReconnect(code): the switch over the six codes that return false.
ShouldReconnect(code) ==
  IF code \in {FluxorCloseCode.AuthenticationFailed, FluxorCloseCode.InvalidShard,
               FluxorCloseCode.ShardingRequired, FluxorCloseCode.InvalidApiVersion,
               FluxorCloseCode.InvalidIntents, FluxorCloseCode.DisallowedIntents}
    THEN FALSE
    ELSE TRUE

\* The codes a close can carry: those of the enum, two 4000-range codes the
\* enum does not name, and the WebSocket's own codes of a network close.
CloseCodes ==
  {FluxorCloseCode[n] : n \in DOMAIN FluxorCloseCode} \cup {4006, 4015, 1000, 1001, 1006}

\* ------------------------------------------------------ session manager

\* The payloads of the frames the client sends.
IdentifyFrame == [op |-> "Identify", token |-> "token"]
ResumeFrame(sid, seq) == [op |-> "Resume", token |-> "token", session_id |-> sid, seq |-> seq]
HeartbeatFrame(seq) == [op |-> "Heartbeat", d |-> seq]

\* What the server sends: session ids, sequence numbers, event names, and the
\* heartbeat interval of its Hello.
Sessions == {"S", "T"}
Seqs == {1, 7}
DispatchEvents == {"READY", "RESUMED", "MESSAGE_CREATE"}
HelloInterval == 45000

StoppedHeartbeat == [heartbeat EXCEPT !.running = FALSE, !.awaitingAck = FALSE]

\* The session is emptied: sessionId and lastSeq cleared.
ClearSession ==
  /\ sessionId' = NoSession
  /\ lastSeq' = NoSeq
  /\ delivered' = <<>>
  /\ received' = <<>>

KeepSession == UNCHANGED <<sessionId, lastSeq, delivered, received>>

\* The backoff waits pending once a reconnect has been asked for.
Scheduled == backoffs + 1

\* The client closes its transport itself; the close event comes later.
ForceClose ==
  /\ transport' = "closed"
  /\ sockets' = IF transport = "closed" THEN sockets ELSE sockets - 1
  /\ closePending' = (closePending \/ transport # "closed")

QuietTransport == UNCHANGED <<sockets, backoffs, closePending>>

\* connect(): Idle -> Connecting, the transport is being opened.
Connect ==
  /\ sessionState = "Idle"
  /\ sessionState' = "Connecting"
  /\ transport' = "opening"
  /\ sockets' = sockets + 1
  /\ UNCHANGED <<backoffs, closePending>>
  /\ gwEvent' = "connect"
  /\ KeepSession
  /\ UNCHANGED <<heartbeat, reconnectAttempt, maxReconnectAttempts, closed, sent,
                 fatal, outsideGateway>>

\* The transport has opened: Connecting -> AwaitingHello.
TransportOpen ==
  /\ sessionState = "Connecting"
  /\ transport = "opening"
  /\ sessionState' = "AwaitingHello"
  /\ transport' = "open"
  /\ gwEvent' = "open"
  /\ QuietTransport
  /\ KeepSession
  /\ UNCHANGED <<heartbeat, reconnectAttempt, maxReconnectAttempts, closed, sent,
                 fatal, outsideGateway>>

\* Mutant of Hello: the handshake is always a fresh Identify.
HelloIdentifyOnly(interval) ==
  /\ sessionState = "AwaitingHello"
  /\ heartbeat' = [intervalMs |-> interval, running |-> TRUE, awaitingAck |-> FALSE]
  /\ sessionState' = "Identifying"
  /\ sent' = IdentifyFrame
  /\ gwEvent' = "hello"
  /\ QuietTransport
  /\ KeepSession
  /\ UNCHANGED <<transport, reconnectAttempt, maxReconnectAttempts, closed, fatal,
                 outsideGateway>>

\* The Hello frame: the interval is recorded and the heartbeat started; with a
\* prior sessionId and lastSeq a Resume frame is sent, otherwise an Identify.
Hello(interval) ==
  /\ sessionState = "AwaitingHello"
  /\ heartbeat' = [intervalMs |-> interval, running |-> TRUE, awaitingAck |-> FALSE]
  /\ IF sessionId # NoSession /\ lastSeq # NoSeq
       THEN /\ sessionState' = "Resuming"
            /\ sent' = ResumeFrame(sessionId, lastSeq)
       ELSE /\ sessionState' = "Identifying"
            /\ sent' = IdentifyFrame
  /\ gwEvent' = "hello"
  /\ QuietTransport
  /\ KeepSession
  /\ UNCHANGED <<transport, reconnectAttempt, maxReconnectAttempts, closed, fatal,
                 outsideGateway>>

\* Mutant of Dispatch: the payload is handed over before lastSeq is updated.
DispatchBeforeUpdate(t, sid, seq) ==
  /\ \/ sessionState = "Identifying" /\ t = "READY"
     \/ sessionState \in {"Resuming", "Established"}
  /\ Len(delivered) < MaxFrames
  /\ sessionState' = "Established"
  /\ received' = Append(received, [t |-> t, s |-> seq])
  /\ delivered' = Append(delivered, [t |-> t, s |-> seq, lastSeq |-> lastSeq,
                                       state |-> sessionState'])
  /\ lastSeq' = IF seq # NoSeq THEN seq ELSE lastSeq
  /\ sessionId' = IF t = "READY" THEN sid ELSE sessionId
  /\ reconnectAttempt' = IF sessionState = "Established" THEN reconnectAttempt ELSE 0
  /\ gwEvent' = "dispatch"
  /\ QuietTransport
  /\ UNCHANGED <<transport, heartbeat, maxReconnectAttempts, closed, sent, fatal,
                 outsideGateway>>

\* Mutant of Dispatch: the payload is handed over in the state the frame came
\* in, before the handshake is taken as done.
DispatchBeforeEstablished(t, sid, seq) ==
  /\ \/ sessionState = "Identifying" /\ t = "READY"
     \/ sessionState \in {"Resuming", "Established"}
  /\ Len(delivered) < MaxFrames
  /\ received' = Append(received, [t |-> t, s |-> seq])
  /\ lastSeq' = IF seq # NoSeq THEN seq ELSE lastSeq
  /\ delivered' = Append(delivered, [t |-> t, s |-> seq, lastSeq |-> lastSeq',
                                       state |-> sessionState])
  /\ sessionId' = IF t = "READY" THEN sid ELSE sessionId
  /\ reconnectAttempt' = IF sessionState = "Established" THEN reconnectAttempt ELSE 0
  /\ sessionState' = "Established"
  /\ gwEvent' = "dispatch"
  /\ QuietTransport
  /\ UNCHANGED <<transport, heartbeat, maxReconnectAttempts, closed, sent, fatal,
                 outsideGateway>>

\* A dispatch frame of event t and sequence seq (READY carries the session id
\* sid).  The session-ready dispatch ends Identifying, any dispatch ends
\* Resuming, and the handshake done the attempt counter is reset; lastSeq is
\* updated, then the payload is handed to the listeners.  Any other dispatch
\* frame is dropped.
Dispatch(t, sid, seq) ==
  /\ \/ sessionState = "Identifying" /\ t = "READY"
     \/ sessionState \in {"Resuming", "Established"}
  /\ Len(delivered) < MaxFrames
  /\ sessionState' = "Established"
  /\ received' = Append(received, [t |-> t, s |-> seq])
  /\ lastSeq' = IF seq # NoSeq THEN seq ELSE lastSeq
  /\ delivered' = Append(delivered, [t |-> t, s |-> seq, lastSeq |-> lastSeq',
                                       state |-> sessionState'])
  /\ sessionId' = IF t = "READY" THEN sid ELSE sessionId
  /\ reconnectAttempt' = IF sessionState = "Established" THEN reconnectAttempt ELSE 0
  /\ gwEvent' = "dispatch"
  /\ QuietTransport
  /\ UNCHANGED <<transport, heartbeat, maxReconnectAttempts, closed, sent, fatal,
                 outsideGateway>>

\* Mutant of InvalidSession: the session is kept.
InvalidSessionKeeps ==
  /\ sessionState \in {"Identifying", "Resuming"}
  /\ sessionState' = "Reconnecting"
  /\ ForceClose
  /\ backoffs' = Scheduled
  /\ heartbeat' = StoppedHeartbeat
  /\ KeepSession
  /\ gwEvent' = "invalidSession"
  /\ UNCHANGED <<reconnectAttempt, maxReconnectAttempts, closed, sent, fatal,
                 outsideGateway>>

\* The server says the session is invalid: the session is emptied and the
\* handshake restarts.
InvalidSession ==
  /\ sessionState \in {"Identifying", "Resuming"}
  /\ sessionState' = "Reconnecting"
  /\ ForceClose
  /\ backoffs' = Scheduled
  /\ heartbeat' = StoppedHeartbeat
  /\ ClearSession
  /\ gwEvent' = "invalidSession"
  /\ UNCHANGED <<reconnectAttempt, maxReconnectAttempts, closed, sent, fatal,
                 outsideGateway>>

\* The server asks the client to reconnect.
ServerReconnect ==
  /\ sessionState = "Established"
  /\ sessionState' = "Reconnecting"
  /\ ForceClose
  /\ backoffs' = Scheduled
  /\ heartbeat' = StoppedHeartbeat
  /\ KeepSession
  /\ gwEvent' = "reconnect"
  /\ UNCHANGED <<reconnectAttempt, maxReconnectAttempts, closed, sent, fatal,
                 outsideGateway>>

\* The transport closes with a code: a code shouldReconnect refuses is fatal,
\* any other leads to a reconnect with the session kept.
TransportClose(code) ==
  /\ sessionState \in {"Connecting", "AwaitingHello", "Identifying", "Resuming",
                        "Established"}
  /\ transport' = "closed"
  /\ sockets' = sockets - 1
  /\ closePending' = closePending
  /\ heartbeat' = StoppedHeartbeat
  /\ closed' = [code |-> code, reconnect |-> ShouldReconnect(code)]
  /\ IF ShouldReconnect(code)
       THEN /\ sessionState' = "Reconnecting"
            /\ backoffs' = Scheduled
            /\ KeepSession
            /\ fatal' = fatal
       ELSE /\ sessionState' = "Terminated"
            /\ backoffs' = backoffs
            /\ ClearSession
            /\ fatal' = fatal + 1
  /\ gwEvent' = "close"
  /\ UNCHANGED <<reconnectAttempt, maxReconnectAttempts, sent, outsideGateway>>

\* Mutant of Reconnect: the attempts are not counted against the maximum.
ReconnectUnbounded ==
  /\ sessionState = "Reconnecting"
  /\ backoffs > 0
  /\ reconnectAttempt < MaxRetries
  /\ reconnectAttempt' = reconnectAttempt + 1
  /\ sessionState' = "Connecting"
  /\ transport' = "opening"
  /\ backoffs' = backoffs - 1
  /\ sockets' = sockets + 1
  /\ closePending' = closePending
  /\ closed' = NoClose
  /\ gwEvent' = "backoff"
  /\ KeepSession
  /\ UNCHANGED <<heartbeat, maxReconnectAttempts, sent, fatal, outsideGateway>>

\* The backoff delay is over and attempts are left: Reconnecting -> Connecting.
Reconnect ==
  /\ sessionState = "Reconnecting"
  /\ backoffs > 0
  /\ reconnectAttempt < maxReconnectAttempts
  /\ reconnectAttempt < MaxRetries
  /\ reconnectAttempt' = reconnectAttempt + 1
  /\ sessionState' = "Connecting"
  /\ transport' = "opening"
  /\ backoffs' = backoffs - 1
  /\ sockets' = sockets + 1
  /\ closePending' = closePending
  /\ closed' = NoClose
  /\ gwEvent' = "backoff"
  /\ KeepSession
  /\ UNCHANGED <<heartbeat, maxReconnectAttempts, sent, fatal, outsideGateway>>

\* The attempts are exhausted: Reconnecting -> Terminated, a fatal error.
GiveUp ==
  /\ sessionState = "Reconnecting"
  /\ reconnectAttempt >= maxReconnectAttempts
  /\ sessionState' = "Terminated"
  /\ fatal' = fatal + 1
  /\ gwEvent' = "exhausted"
  /\ backoffs' = 0
  /\ UNCHANGED <<sockets, closePending>>
  /\ KeepSession
  /\ UNCHANGED <<transport, heartbeat, reconnectAttempt, maxReconnectAttempts,
                 closed, sent, outsideGateway>>

\* Mutant of HeartbeatDue: a heartbeat is sent whether or not the previous one
\* was acknowledged.
HeartbeatDueUnchecked ==
  /\ heartbeat.running
  /\ sent' = HeartbeatFrame(lastSeq)
  /\ heartbeat' = [heartbeat EXCEPT !.awaitingAck = TRUE]
  /\ gwEvent' = "heartbeatDue"
  /\ QuietTransport
  /\ KeepSession
  /\ UNCHANGED <<sessionState, transport, reconnectAttempt, maxReconnectAttempts,
                 closed, fatal, outsideGateway>>

\* The heartbeat timer fires.  With the previous heartbeat unacknowledged the
\* connection is a zombie: the transport is force-closed and the session kept
\* for a resume.  Otherwise a heartbeat carrying lastSeq is sent.
HeartbeatDue ==
  /\ heartbeat.running
  /\ IF heartbeat.awaitingAck
       THEN /\ ForceClose
            /\ backoffs' = Scheduled
            /\ sessionState' = "Reconnecting"
            /\ heartbeat' = StoppedHeartbeat
            /\ sent' = sent
       ELSE /\ sent' = HeartbeatFrame(lastSeq)
            /\ heartbeat' = [heartbeat EXCEPT !.awaitingAck = TRUE]
            /\ UNCHANGED <<transport, sessionState>>
            /\ QuietTransport
  /\ gwEvent' = "heartbeatDue"
  /\ KeepSession
  /\ UNCHANGED <<reconnectAttempt, maxReconnectAttempts, closed, fatal, outsideGateway>>

\* The server acknowledges the heartbeat.
HeartbeatAck ==
  /\ heartbeat.running
  /\ heartbeat.awaitingAck
  /\ heartbeat' = [heartbeat EXCEPT !.awaitingAck = FALSE]
  /\ gwEvent' = "heartbeatAck"
  /\ QuietTransport
  /\ KeepSession
  /\ UNCHANGED <<sessionState, transport, reconnectAttempt, maxReconnectAttempts,
                 closed, sent, fatal, outsideGateway>>

\* Mutant of Shutdown: the timers are left running.
ShutdownKeepsTimers ==
  /\ sessionState # "Terminated"
  /\ sessionState' = "Terminated"
  /\ ForceClose
  /\ ClearSession
  /\ gwEvent' = "shutdown"
  /\ UNCHANGED <<backoffs, heartbeat, reconnectAttempt, maxReconnectAttempts,
                 closed, sent, fatal, outsideGateway>>

\* destroy(): from any state to Terminated; transport closed, timers
\* cancelled, session destroyed.
Shutdown ==
  /\ sessionState # "Terminated"
  /\ sessionState' = "Terminated"
  /\ ForceClose
  /\ backoffs' = 0
  /\ heartbeat' = StoppedHeartbeat
  /\ ClearSession
  /\ gwEvent' = "shutdown"
  /\ UNCHANGED <<reconnectAttempt, maxReconnectAttempts, closed, sent, fatal,
                 outsideGateway>>

\* Mutant of LateClose: the close event of the old transport is handled as a
\* close of the connection, whatever the phase.
LateCloseUnguarded ==
  /\ closePending
  /\ closePending' = FALSE
  /\ sessionState' = IF sessionState = "Terminated" THEN sessionState ELSE "Reconnecting"
  /\ backoffs' = IF sessionState = "Terminated" THEN backoffs ELSE Scheduled
  /\ gwEvent' = "lateClose"
  /\ KeepSession
  /\ UNCHANGED <<transport, sockets, heartbeat, reconnectAttempt,
                 maxReconnectAttempts, closed, sent, fatal, outsideGateway>>

\* The close event of a transport the client closed itself arrives.  The
\* reconnect it would ask for is already under way, or the session is over:
\* the phase guard drops it.
LateClose ==
  /\ closePending
  /\ closePending' = FALSE
  /\ gwEvent' = "lateClose"
  /\ KeepSession
  /\ UNCHANGED <<sessionState, transport, sockets, backoffs, heartbeat,
                 reconnectAttempt, maxReconnectAttempts, closed, sent, fatal,
                 outsideGateway>>

\* A session manager of any configuration, beside an idle rate limiter.
InitSession ==
  /\ InitBucket /\ InitKeys /\ InitGateway /\ InitClient
  /\ limit = 1 /\ windowMs = 1 /\ enabled

NextGateway ==
  \/ Connect
  \/ TransportOpen
  \/ Hello(HelloInterval)
  \/ \E t \in DispatchEvents, sid \in Sessions, seq \in Seqs \cup {NoSeq} :
        Dispatch(t, sid, seq)
  \/ InvalidSession
  \/ ServerReconnect
  \/ \E code \in CloseCodes : TransportClose(code)
  \/ Reconnect
  \/ GiveUp
  \/ HeartbeatDue
  \/ HeartbeatAck
  \/ Shutdown
  \/ LateClose

SpecGateway == InitSession /\ [][NextGateway]_vars

\* ------------------------------------------------------- Event dispatcher

\* Every payload: the filter of a waitFor call without one.
AnyPayload == Payloads

\* Mutant of Suppressed: no event name is suppressed.
SuppressedNever(event) == FALSE

\* Whether frames of this event name are decoded but not delivered.
Suppressed(event) == event \in ignored

Registered(id) == \E i \in 1..Len(registry) : registry[i].id = id

Without(regs, id) == SelectSeq(regs, LAMBDA l : l.id # id)

\* A registration: on and once listeners may throw, a waitFor has a filter.
Register(event, kind, throws, accept) ==
  /\ nextId <= MaxListeners
  /\ registry' = Append(registry, [id |-> nextId, event |-> event, kind |-> kind,
                                     throws |-> throws, accept |-> accept])
  /\ nextId' = nextId + 1

\* on(event, listener)
On(event, throws) ==
  /\ Register(event, "on", throws, AnyPayload)
  /\ UNCHANGED <<ignored, promises, run, reported, dispatched, outsideDispatcher>>

\* once(event, listener)
Once(event, throws) ==
  /\ Register(event, "once", throws, AnyPayload)
  /\ UNCHANGED <<ignored, promises, run, reported, dispatched, outsideDispatcher>>

\* off(event, listener)
Off(id) ==
  /\ \E i \in 1..Len(registry) : registry[i].id = id /\ registry[i].kind # "waitFor"
  /\ registry' = Without(registry, id)
  /\ UNCHANGED <<ignored, nextId, promises, run, reported, dispatched,
                 outsideDispatcher>>

\* waitFor(event, {filter, timeout}): a registration, a pending promise and a
\* timer.
WaitFor(event, accept) ==
  /\ Register(event, "waitFor", FALSE, accept)
  /\ promises' = [promises EXCEPT ![nextId] =
                     [state |-> "pending", settles |-> 0, value |-> 0, armed |-> TRUE]]
  /\ UNCHANGED <<ignored, run, reported, dispatched, outsideDispatcher>>

\* What one frame's delivery starts from: nothing invoked, everything kept.
StartOfDelivery ==
  [ids |-> <<>>, errors |-> 0, keep |-> <<>>, promises |-> promises, alive |-> TRUE]

\* Mutant of Deliver: a listener that throws ends the delivery and the
\* dispatch loop.
RECURSIVE DeliverStopsAtThrow(_, _, _, _)
DeliverStopsAtThrow(regs, event, payload, acc) ==
  IF regs = <<>> THEN acc
  ELSE
    LET l == Head(regs) IN
    IF l.event # event
      THEN DeliverStopsAtThrow(Tail(regs), event, payload,
                               [acc EXCEPT !.keep = Append(@, l)])
    ELSE IF l.kind = "waitFor"
      THEN IF payload \in l.accept
             THEN DeliverStopsAtThrow(Tail(regs), event, payload,
                    [acc EXCEPT !.ids = Append(@, l.id),
                                !.promises[l.id].state = "resolved",
                                !.promises[l.id].settles = @ + 1,
                                !.promises[l.id].value = payload])
             ELSE DeliverStopsAtThrow(Tail(regs), event, payload,
                    [acc EXCEPT !.ids = Append(@, l.id), !.keep = Append(@, l)])
    ELSE IF l.throws
      THEN [acc EXCEPT !.ids = Append(@, l.id), !.alive = FALSE,
                       !.keep = @ \o (IF l.kind = "once" THEN Tail(regs) ELSE regs)]
    ELSE DeliverStopsAtThrow(Tail(regs), event, payload,
           [acc EXCEPT !.ids = Append(@, l.id),
                       !.keep = IF l.kind = "once" THEN @ ELSE Append(@, l)])

\* The delivery of one frame to the listeners of its event, in the order of
\* their registration: a once listener is removed as it is invoked, a waitFor
\* whose filter accepts the payload resolves and is removed, and the error of
\* a listener that throws is reported.
RECURSIVE Deliver(_, _, _, _)
Deliver(regs, event, payload, acc) ==
  IF regs = <<>> THEN acc
  ELSE
    LET l == Head(regs) IN
    IF l.event # event
      THEN Deliver(Tail(regs), event, payload, [acc EXCEPT !.keep = Append(@, l)])
    ELSE IF l.kind = "waitFor"
      THEN IF payload \in l.accept
             THEN Deliver(Tail(regs), event, payload,
                    [acc EXCEPT !.ids = Append(@, l.id),
                                !.promises[l.id].state = "resolved",
                                !.promises[l.id].settles = @ + 1,
                                !.promises[l.id].value = payload])
             ELSE Deliver(Tail(regs), event, payload,
                    [acc EXCEPT !.ids = Append(@, l.id), !.keep = Append(@, l)])
    ELSE Deliver(Tail(regs), event, payload,
           [acc EXCEPT !.ids = Append(@, l.id),
                       !.errors = IF l.throws THEN @ + 1 ELSE @,
                       !.keep = IF l.kind = "once" THEN @ ELSE Append(@, l)])

\* The dispatch loop takes a dispatch frame: a frame of a suppressed event is
\* decoded and dropped, any other is delivered.
DispatchFrame(event, payload) ==
  /\ dispatched < MaxDispatches
  /\ run.alive
  /\ dispatched' = dispatched + 1
  /\ LET r == IF Suppressed(event)
                THEN [StartOfDelivery EXCEPT !.keep = registry]
                ELSE Deliver(registry, event, payload, StartOfDelivery)
     IN /\ registry' = r.keep
        /\ promises' = r.promises
        /\ reported' = reported + r.errors
        /\ run' = [event |-> event, payload |-> payload, ids |-> r.ids,
                   alive |-> r.alive]
  /\ UNCHANGED <<ignored, nextId, outsideDispatcher>>

\* Mutant of Timeout: the timer rejects without looking at the registration.
TimeoutUnchecked(id) ==
  /\ promises[id].armed
  /\ promises' = [promises EXCEPT ![id] =
                     [@ EXCEPT !.state = "rejected", !.settles = @ + 1,
                               !.armed = FALSE]]
  /\ registry' = Without(registry, id)
  /\ UNCHANGED <<ignored, nextId, run, reported, dispatched, outsideDispatcher>>

\* The timer of a waitFor call fires: a call still registered is removed and
\* fails with a timeout error, a call already settled is left as it is.
Timeout(id) ==
  /\ promises[id].armed
  /\ promises' = [promises EXCEPT ![id] =
                     IF Registered(id)
                       THEN [@ EXCEPT !.state = "rejected", !.settles = @ + 1,
                                      !.armed = FALSE]
                       ELSE [@ EXCEPT !.armed = FALSE]]
  /\ registry' = Without(registry, id)
  /\ UNCHANGED <<ignored, nextId, run, reported, dispatched, outsideDispatcher>>

\* An event dispatcher of either configuration, beside an idle client.
InitEvents ==
  /\ InitBucket /\ InitKeys /\ InitGateway /\ InitDispatcher /\ InitUtil
  /\ maxReconnectAttempts = Infinity
  /\ limit = 1 /\ windowMs = 1 /\ enabled

NextDispatcher ==
  \/ \E e \in EventNames, throws \in BOOLEAN : On(e, throws)
  \/ \E e \in EventNames, throws \in BOOLEAN : Once(e, throws)
  \/ \E id \in 1..MaxListeners : Off(id)
  \/ \E e \in EventNames, accept \in {{1}, AnyPayload} : WaitFor(e, accept)
  \/ \E e \in EventNames, p \in Payloads : DispatchFrame(e, p)
  \/ \E id \in 1..MaxListeners : Timeout(id)

SpecDispatcher == InitEvents /\ [][NextDispatcher]_vars

\* ------------------------------------------------------- util/token

\* Strings are sequences of characters.
BotPrefix == <<"B", "o", "t", " ">>
UserPrefix == <<"f", "l", "x", "_">>

\* String.prototype.startsWith, slice(n) and trim.
StartsWith(str, prefix) ==
  Len(str) >= Len(prefix) /\ SubSeq(str, 1, Len(prefix)) = prefix

Slice(str, n) == SubSeq(str, n + 1, Len(str))

WhiteSpace == {" ", "\t"}

RECURSIVE TrimStart(_)
TrimStart(str) ==
  IF str # <<>> /\ Head(str) \in WhiteSpace THEN TrimStart(Tail(str)) ELSE str

RECURSIVE TrimEnd(_)
TrimEnd(str) ==
  IF str # <<>> /\ str[Len(str)] \in WhiteSpace
    THEN TrimEnd(SubSeq(str, 1, Len(str) - 1))
    ELSE str

Trim(str) == TrimEnd(TrimStart(str))

\* validateToken(token): whether it throws.
ValidateToken(token) ==
  IF token = <<>> \/ Len(Trim(token)) = 0 THEN [threw |-> TRUE]
  ELSE IF ~StartsWith(token, BotPrefix) /\ ~StartsWith(token, UserPrefix)
    THEN [threw |-> TRUE]
  ELSE [threw |-> FALSE]

\* Mutant of GetGatewayToken: the token is returned as it is.
GetGatewayTokenAsIs(token) == token

\* getGatewayToken(token)
GetGatewayToken(token) ==
  IF StartsWith(token, BotPrefix) THEN Slice(token, 4) ELSE token

\* The tokens tried: with and without either prefix, with blanks, and empty.
TokenHeads ==
  {<<>>, BotPrefix, UserPrefix, <<"B", "o", "t">>, <<"b", "o", "t", " ">>,
   <<" ">>, <<" ", "\t">>, <<" ">> \o BotPrefix, <<"f", "l", "x">>}
TokenTails ==
  {<<>>, <<"a">>, <<"a", "b", " ">>, BotPrefix, UserPrefix, <<" ">>, <<"a", " ", "b">>,
   <<"\t">>}
Tokens == {h \o t : h \in TokenHeads, t \in TokenTails}

CallValidateToken(token) ==
  /\ tok' = [op |-> "validateToken", token |-> token,
             threw |-> ValidateToken(token).threw, result |-> <<>>]
  /\ UNCHANGED outsideToken

CallGetGatewayToken(token) ==
  /\ tok' = [op |-> "getGatewayToken", token |-> token, threw |-> FALSE,
             result |-> GetGatewayToken(token)]
  /\ UNCHANGED outsideToken

NextToken ==
  \/ \E token \in Tokens : CallValidateToken(token)
  \/ \E token \in Tokens : CallGetGatewayToken(token)

\* The client as constructed, idle.
InitIdle == Init /\ limit = 1 /\ windowMs = 1 /\ enabled

SpecToken == InitIdle /\ [][NextToken]_vars

\* ------------------------------------------------------- EmbedBuilder

MaxTitleLength == 256
MaxDescriptionLength == 4096
MaxFieldCount == 25
MaxFieldNameLength == 256
MaxFieldValueLength == 1024
MaxFooterTextLength == 2048
MaxAuthorNameLength == 256
MaxEmbedLength == 6000

\* A call that threw: the builder is as it was.
Threw(op, args) ==
  /\ embCall' = [op |-> op, args |-> args, threw |-> TRUE, embed |-> NoEmbed]
  /\ builder' = builder

Returned(op, args, b) ==
  /\ embCall' = [op |-> op, args |-> args, threw |-> FALSE, embed |-> NoEmbed]
  /\ builder' = b

\* setTitle(title)
SetTitle(title) ==
  /\ IF title = NullText \/ title > MaxTitleLength
       THEN Threw("setTitle", <<title>>)
       ELSE Returned("setTitle", <<title>>, [builder EXCEPT !.title = title])
  /\ UNCHANGED outsideEmbed

\* setDescription(description)
SetDescription(description) ==
  /\ IF description = NullText \/ description > MaxDescriptionLength
       THEN Threw("setDescription", <<description>>)
       ELSE Returned("setDescription", <<description>>,
                     [builder EXCEPT !.description = description])
  /\ UNCHANGED outsideEmbed

\* setFooter(text): new EmbedFooterBuilder(text) throws on a long text.
SetFooter(text) ==
  /\ IF text > MaxFooterTextLength
       THEN Threw("setFooter", <<text>>)
       ELSE Returned("setFooter", <<text>>, [builder EXCEPT !.footer = text])
  /\ UNCHANGED outsideEmbed

\* setAuthor(name): new EmbedAuthorBuilder(name) throws on a long name.
SetAuthor(name) ==
  /\ IF name > MaxAuthorNameLength
       THEN Threw("setAuthor", <<name>>)
       ELSE Returned("setAuthor", <<name>>, [builder EXCEPT !.author = name])
  /\ UNCHANGED outsideEmbed

\* addField(name, value) on the field list: the count is checked, then
\* new EmbedFieldBuilder(name, value) checks the two lengths.
AddFieldTo(fields, name, value) ==
  IF Len(fields) >= MaxFieldCount THEN [fields |-> fields, threw |-> TRUE]
  ELSE IF name > MaxFieldNameLength THEN [fields |-> fields, threw |-> TRUE]
  ELSE IF value > MaxFieldValueLength THEN [fields |-> fields, threw |-> TRUE]
  ELSE [fields |-> Append(fields, [name |-> name, value |-> value]), threw |-> FALSE]

\* addFields(...fs): addField for each, up to the first that throws.
RECURSIVE AddFieldsTo(_, _)
AddFieldsTo(fields, fs) ==
  IF fs = <<>> THEN [fields |-> fields, threw |-> FALSE]
  ELSE LET r == AddFieldTo(fields, Head(fs).name, Head(fs).value)
       IN IF r.threw THEN r ELSE AddFieldsTo(r.fields, Tail(fs))

\* Fields of more than a character or two are tried as the first few fields
\* of an embed only.
AddField(name, value) ==
  /\ Len(builder.fields) < MaxLongFields \/ name + value <= 2
  /\ LET r == AddFieldTo(builder.fields, name, value)
     IN /\ embCall' = [op |-> "addField", args |-> <<name, value>>,
                       threw |-> r.threw, embed |-> NoEmbed]
        /\ builder' = [builder EXCEPT !.fields = r.fields]
  /\ UNCHANGED outsideEmbed

AddFields(fs) ==
  /\ Len(builder.fields) + 1 < MaxLongFields
       \/ \A i \in 1..Len(fs) : fs[i].name + fs[i].value <= 2
  /\ LET r == AddFieldsTo(builder.fields, fs)
     IN /\ embCall' = [op |-> "addFields",
                       args |-> <<fs[1].name, fs[1].value, fs[2].name, fs[2].value>>,
                       threw |-> r.threw, embed |-> NoEmbed]
        /\ builder' = [builder EXCEPT !.fields = r.fields]
  /\ UNCHANGED outsideEmbed

\* _totalLength()
TextLength(text) == IF text = NoText THEN 0 ELSE text

RECURSIVE FieldsLength(_)
FieldsLength(fields) ==
  IF fields = <<>> THEN 0
  ELSE Head(fields).name + Head(fields).value + FieldsLength(Tail(fields))

TotalLength(b) ==
  TextLength(b.title) + TextLength(b.description) + TextLength(b.footer)
    + TextLength(b.author) + FieldsLength(b.fields)

\* Mutant of BuildEmbed: the total length is not checked.
BuildEmbedUnchecked(b) == [threw |-> FALSE, embed |-> b]

\* build() of a builder b: throws on a total over MaxEmbedLength, else
\* returns an Embed with what has been set.
BuildEmbed(b) ==
  IF TotalLength(b) > MaxEmbedLength
    THEN [threw |-> TRUE, embed |-> NoEmbed]
    ELSE [threw |-> FALSE, embed |-> b]

Build ==
  /\ embCall' = [op |-> "build", args |-> <<>>, threw |-> BuildEmbed(builder).threw,
                 embed |-> BuildEmbed(builder).embed]
  /\ builder' = builder
  /\ UNCHANGED outsideEmbed

\* The field lengths tried, and the pairs of fields given to addFields.
FieldSizes ==
  { <<1, 1>>, <<MaxFieldNameLength, MaxFieldValueLength>>,
    <<MaxFieldNameLength + 1, 1>>, <<1, MaxFieldValueLength + 1>> }
FieldLists ==
  { <<[name |-> 1, value |-> 1], [name |-> 1, value |-> 1]>>,
    <<[name |-> 1, value |-> 1], [name |-> 1, value |-> MaxFieldValueLength + 1]>>,
    <<[name |-> MaxFieldNameLength + 1, value |-> 1], [name |-> 1, value |-> 1]>> }

NextEmbed ==
  \/ \E title \in {NullText, 0, MaxTitleLength, MaxTitleLength + 1} : SetTitle(title)
  \/ \E d \in {NullText, MaxDescriptionLength, MaxDescriptionLength + 1} :
        SetDescription(d)
  \/ \E text \in {MaxFooterTextLength, MaxFooterTextLength + 1} : SetFooter(text)
  \/ \E name \in {MaxAuthorNameLength, MaxAuthorNameLength + 1} : SetAuthor(name)
  \/ \E f \in FieldSizes : AddField(f[1], f[2])
  \/ \E fs \in FieldLists : AddFields(fs)
  \/ Build

SpecEmbed == InitIdle /\ [][NextEmbed]_vars

\* ---------------------------------------------------------- CommandService

\* CommandError.
CommandError ==
  {"PARSE_FAILED", "UNKNOWN_COMMAND", "BAD_ARG_COUNT", "UNMET_PRECONDITION",
   "EXCEPTION", "UNSUCCESSFUL"}

\* Permissions: the flags the commands below use.
KickMembers == 2
BanMembers == 4
Administrator == 8

Digits == <<"0", "1", "2", "3", "4", "5", "6", "7", "8", "9">>

IsDigit(c) == \E d \in 1..Len(Digits) : Digits[d] = c

\* BigInt(raw) of a string of decimal digits.
RECURSIVE BigIntOf(_)
BigIntOf(str) ==
  IF str = <<>> THEN 0
  ELSE 10 * BigIntOf(SubSeq(str, 1, Len(str) - 1))
       + (CHOOSE d \in 0..9 : Digits[d + 1] = str[Len(str)])

\* a & b on bigints.
RECURSIVE BitAnd(_, _)
BitAnd(a, b) ==
  IF a = 0 \/ b = 0 THEN 0
  ELSE (a % 2) * (b % 2) + 2 * BitAnd(a \div 2, b \div 2)

\* What a precondition returns: ok, and the failure of requirePermissions.
Ok == [threw |-> FALSE, success |-> TRUE, error |-> "none"]
Unmet == [threw |-> FALSE, success |-> FALSE, error |-> "UNMET_PRECONDITION"]
Thrown == [threw |-> TRUE, success |-> FALSE, error |-> "none"]

\* Mutant of RequirePermissions: Administrator bypasses nothing.
RequirePermissionsNoBypass(requiredBits, raw) ==
  IF raw = NoPermissions \/ raw = <<>> THEN Unmet
  ELSE IF \E j \in 1..Len(raw) : ~IsDigit(raw[j]) THEN Thrown
  ELSE IF BitAnd(BigIntOf(raw), requiredBits) = requiredBits THEN Ok
  ELSE Unmet

\* The precondition requirePermissions(requiredBits) on a message whose
\* member_permissions is raw; BigInt throws a SyntaxError on a string that is
\* not a number.
RequirePermissions(requiredBits, raw) ==
  IF raw = NoPermissions \/ raw = <<>> THEN Unmet
  ELSE IF \E j \in 1..Len(raw) : ~IsDigit(raw[j]) THEN Thrown
  ELSE LET userBits == BigIntOf(raw) IN
       IF BitAnd(userBits, Administrator) = Administrator THEN Ok
       ELSE IF BitAnd(userBits, requiredBits) = requiredBits THEN Ok
       ELSE Unmet

\* The commands registered: two of one module, and one with preconditions
\* (requirePermissions, then one of the caller's own) and parameters (one
\* required, then one optional).
Registry ==
  << [name |-> "ping", preconditions |-> <<>>, parameters |-> <<>>, module |-> TRUE],
     [name |-> "echo", preconditions |-> <<>>,
      parameters |-> <<[optional |-> TRUE]>>, module |-> TRUE],
     [name |-> "ban",
      preconditions |-> <<[kind |-> "requirePermissions", requiredBits |-> KickMembers + BanMembers],
                         [kind |-> "custom", requiredBits |-> 0]>>,
      parameters |-> <<[optional |-> FALSE], [optional |-> TRUE]>>, module |-> FALSE] >>

\* search(name): the first command of that name.
Search(name) ==
  IF \E c \in 1..Len(Registry) : Registry[c].name = name
    THEN CHOOSE c \in 1..Len(Registry) :
           /\ Registry[c].name = name
           /\ \A d \in 1..(c - 1) : Registry[d].name # name
    ELSE Null

\* The messages executed: whether the content starts with the prefix, the
\* command name in it, the number of arguments after it, member_permissions.
PermissionStrings ==
  {NoPermissions, <<>>, <<"4">>, <<"6">>, <<"8">>, <<"1", "2">>, <<"x">>}

Messages ==
  {m \in [prefix : BOOLEAN, name : {"", "nope", "ping", "echo", "ban"},
          args : 0..2, member_permissions : PermissionStrings] :
     /\ ~m.prefix => m.name = "ping"
     /\ m.name # "ban" => m.member_permissions = NoPermissions
     /\ m.args <= (IF Search(m.name) = Null THEN 0 ELSE Len(Registry[Search(m.name)].parameters))}

\* What the caller's own precondition may return, a parser, a handler or hook.
CustomChecks == {Ok, Unmet, [Unmet EXCEPT !.error = "none"], [Unmet EXCEPT !.error = "UNSUCCESSFUL"], Thrown}
ParseOutcomes == {"parsed", "undefined", "throws"}
CallOutcomes == {"returns", "throws"}

\* r with one more entry of what ran: the check or call, its index in its
\* list, how it ended (for a failed precondition the error it gave, "none" if
\* it gave none), the context the module held when it ended.
Logged(r, what, outcome, ctx) ==
  [r EXCEPT !.log = Append(@, [what |-> what, k |-> r.k, outcome |-> outcome, context |-> ctx])]

\* execute returns a CommandResult; execute throws.
Finish(r, success, error) ==
  [r EXCEPT !.pc = "done",
            !.result = [state |-> "resolved", success |-> success, error |-> error]]
Reject(r) ==
  [r EXCEPT !.pc = "done",
            !.result = [state |-> "rejected", success |-> FALSE, error |-> "none"]]

\* cmd.execute(ctx, ...parsedArgs): the wrapper of addModule sets the context
\* and awaits beforeExecute; a plain command's handler is awaited.
Invoke(r, i) ==
  IF Registry[r.cmd].module
    THEN [Logged([r EXCEPT !.k = 0], "context", "set", i) EXCEPT !.pc = "beforeExecute"]
    ELSE [r EXCEPT !.pc = "handler", !.k = 0]

\* The parameter loop from parameter k to its next await.
RECURSIVE ParseFrom(_, _, _)
ParseFrom(r, k, i) ==
  LET ps == Registry[r.cmd].parameters
      at == [r EXCEPT !.k = k]
  IN IF k > Len(ps) THEN Invoke(r, i)
     ELSE IF k > r.message.args
       THEN IF ps[k].optional
              THEN ParseFrom(Logged(at, "parameter", "defaultValue", Null), k + 1, i)
              ELSE Finish(Logged(at, "parameter", "missing", Null), FALSE, "BAD_ARG_COUNT")
       ELSE [at EXCEPT !.pc = "parameter"]

\* The precondition loop from precondition k to its next await.
CheckFrom(r, k, i) ==
  IF k > Len(Registry[r.cmd].preconditions)
    THEN ParseFrom(r, 1, i)
    ELSE [r EXCEPT !.pc = "precondition", !.k = k]

\* execute up to its first await.
Start(m, i) ==
  LET r == [NoInvocation EXCEPT !.message = m] IN
  IF ~m.prefix \/ m.name = "" \/ Search(m.name) = Null
    THEN Finish(r, FALSE, "UNKNOWN_COMMAND")
    ELSE CheckFrom([r EXCEPT !.cmd = Search(m.name)], 1, i)

\* Mutant of AfterPrecondition: a failed precondition does not stop execute.
AfterPreconditionContinues(r, check, i) ==
  IF check.threw THEN Reject(Logged(r, "precondition", "throws", Null))
  ELSE CheckFrom(Logged(r, "precondition", IF check.success THEN "ok" ELSE check.error, Null),
                 r.k + 1, i)

\* execute after the await of precondition r.k, which returned check.
AfterPrecondition(r, check, i) ==
  IF check.threw THEN Reject(Logged(r, "precondition", "throws", Null))
  ELSE IF ~check.success
    THEN LET error == IF check.error = "none" THEN "UNMET_PRECONDITION" ELSE check.error
         IN Finish(Logged(r, "precondition", check.error, Null), FALSE, error)
    ELSE CheckFrom(Logged(r, "precondition", "ok", Null), r.k + 1, i)

\* execute after the await of the parser of parameter r.k.
AfterParse(r, parsed, i) ==
  IF parsed = "throws" THEN Reject(Logged(r, "parameter", "throws", Null))
  ELSE IF parsed = "undefined"
    THEN Finish(Logged(r, "parameter", "undefined", Null), FALSE, "PARSE_FAILED")
    ELSE ParseFrom(Logged(r, "parameter", "parsed", Null), r.k + 1, i)

\* The wrapper after the await of beforeExecute: a throw reaches the catch of
\* execute, else the handler is called.
AfterBeforeExecute(r, outcome, ctx) ==
  IF outcome = "throws"
    THEN Finish(Logged(r, "beforeExecute", "throws", ctx), FALSE, "EXCEPTION")
    ELSE [Logged(r, "beforeExecute", "returns", ctx) EXCEPT !.pc = "handler"]

\* Mutant of AfterHandler: afterExecute runs whatever the handler did.
AfterHandlerFinally(r, outcome, ctx) ==
  IF Registry[r.cmd].module
    THEN [Logged(r, "handler", outcome, ctx) EXCEPT !.pc = "afterExecute"]
    ELSE IF outcome = "throws"
      THEN Finish(Logged(r, "handler", "throws", ctx), FALSE, "EXCEPTION")
      ELSE Finish(Logged(r, "handler", "returns", ctx), TRUE, "none")

\* After the await of the handler: the wrapper calls afterExecute, execute
\* returns for a plain command.
AfterHandler(r, outcome, ctx) ==
  IF outcome = "throws"
    THEN Finish(Logged(r, "handler", "throws", ctx), FALSE, "EXCEPTION")
    ELSE IF Registry[r.cmd].module
      THEN [Logged(r, "handler", "returns", ctx) EXCEPT !.pc = "afterExecute"]
      ELSE Finish(Logged(r, "handler", "returns", ctx), TRUE, "none")

\* The wrapper after the await of afterExecute.
AfterAfterExecute(r, outcome, ctx) ==
  IF outcome = "throws"
    THEN Finish(Logged(r, "afterExecute", "throws", ctx), FALSE, "EXCEPTION")
    ELSE Finish(Logged(r, "afterExecute", "returns", ctx), TRUE, "none")

\* Whether the wrapper of addModule has set the context in r.
ContextSet(r) == \E j \in 1..Len(r.log) : r.log[j].what = "context"

\* Invocation i moves to r; mod.context = ctx when this step went through it.
Continue(i, r) ==
  /\ inv' = [inv EXCEPT ![i] = r]
  /\ modContext' = IF ContextSet(r) /\ ~ContextSet(inv[i]) THEN i ELSE modContext
  /\ UNCHANGED outsideCommands

\* execute(message, api, gateway).
Execute(i, m) ==
  /\ inv[i].pc = "idle"
  /\ \A j \in 1..(i - 1) : inv[j].pc # "idle"
  /\ Continue(i, Start(m, i))

\* The precondition execute awaits settles: requirePermissions on the message,
\* or the caller's own with any result.
ResumePrecondition(i, custom) ==
  /\ inv[i].pc = "precondition"
  /\ LET r == inv[i]
         p == Registry[r.cmd].preconditions[r.k]
     IN IF p.kind = "requirePermissions"
          THEN /\ custom = Ok
               /\ Continue(i, AfterPrecondition(r,
                     RequirePermissions(p.requiredBits, r.message.member_permissions), i))
          ELSE Continue(i, AfterPrecondition(r, custom, i))

\* The parser execute awaits settles.
ResumeParameter(i, parsed) ==
  /\ inv[i].pc = "parameter"
  /\ Continue(i, AfterParse(inv[i], parsed, i))

\* beforeExecute settles.
ResumeBeforeExecute(i, outcome) ==
  /\ inv[i].pc = "beforeExecute"
  /\ Continue(i, AfterBeforeExecute(inv[i], outcome, modContext))

\* The handler settles.
ResumeHandler(i, outcome) ==
  /\ inv[i].pc = "handler"
  /\ Continue(i, AfterHandler(inv[i], outcome, modContext))

\* afterExecute settles.
ResumeAfterExecute(i, outcome) ==
  /\ inv[i].pc = "afterExecute"
  /\ Continue(i, AfterAfterExecute(inv[i], outcome, modContext))

NextCommands ==
  \/ \E i \in 1..NumInvocations, m \in Messages : Execute(i, m)
  \/ \E i \in 1..NumInvocations, c \in CustomChecks : ResumePrecondition(i, c)
  \/ \E i \in 1..NumInvocations, p \in ParseOutcomes : ResumeParameter(i, p)
  \/ \E i \in 1..NumInvocations, o \in CallOutcomes : ResumeBeforeExecute(i, o)
  \/ \E i \in 1..NumInvocations, o \in CallOutcomes : ResumeHandler(i, o)
  \/ \E i \in 1..NumInvocations, o \in CallOutcomes : ResumeAfterExecute(i, o)

SpecCommands == InitIdle /\ [][NextCommands]_vars


\* ------------------------------------------------------------ Client caches

GuildIds == {"g1", "g2"}
ChannelIds == {"c1", "c2"}
UserIds == {"u1", "u2"}

\* The objects the gateway sends: channels, guilds with or without their
\* channels, users, READY data.
ChannelObjects == {[id |-> c] : c \in ChannelIds}
ChannelLists == {<<>>, <<[id |-> "c1"]>>, <<[id |-> "c1"], [id |-> "c2"]>>}
GuildObjects == {[id |-> g, channels |-> cs] : g \in GuildIds, cs \in ChannelLists}
UserObjects == {[id |-> u] : u \in UserIds}
ReadyData ==
  { [user |-> [id |-> "u1"], guilds |-> <<>>, private_channels |-> <<>>],
    [user |-> NoUser, guilds |-> <<[id |-> "g1", channels |-> <<[id |-> "c1"]>>]>>,
     private_channels |-> <<[id |-> "c2"]>>],
    [user |-> [id |-> "u2"],
     guilds |-> <<[id |-> "g1", channels |-> <<>>], [id |-> "g2", channels |-> <<[id |-> "c2"]>>]>>,
     private_channels |-> <<>>] }

\* map.set(object.id, object) for each object of a list, and map.delete(id).
RECURSIVE SetAll(_, _)
SetAll(map, objects) ==
  IF objects = <<>> THEN map
  ELSE SetAll((Head(objects).id :> Head(objects)) @@ map, Tail(objects))
Delete(map, id) == [k \in DOMAIN map \ {id} |-> map[k]]

\* The channels of the guilds of a list, in order.
RECURSIVE ChannelsOf(_)
ChannelsOf(gs) ==
  IF gs = <<>> THEN <<>> ELSE Head(gs).channels \o ChannelsOf(Tail(gs))

\* The client has handled one more event.
Handled(t, d) ==
  /\ Len(events) < MaxEvents
  /\ events' = Append(events, [t |-> t, d |-> d])
  /\ UNCHANGED outsideCache

\* The listener of READY.
Ready(data) ==
  /\ Handled("READY", data)
  /\ user' = data.user
  /\ readyAt' = TRUE
  /\ users' = IF data.user # NoUser THEN SetAll(users, <<data.user>>) ELSE users
  /\ guilds' = SetAll(guilds, data.guilds)
  /\ channels' = SetAll(SetAll(channels, ChannelsOf(data.guilds)), data.private_channels)

\* The listeners of GUILD_CREATE, GUILD_UPDATE, GUILD_DELETE.
GuildCreate(guild) ==
  /\ Handled("GUILD_CREATE", guild)
  /\ guilds' = SetAll(guilds, <<guild>>)
  /\ channels' = SetAll(channels, guild.channels)
  /\ UNCHANGED <<user, users, readyAt>>

GuildUpdate(guild) ==
  /\ Handled("GUILD_UPDATE", guild)
  /\ guilds' = SetAll(guilds, <<guild>>)
  /\ UNCHANGED <<user, users, readyAt, channels>>

\* Mutant of GuildDelete: the guild stays in the cache.
GuildDeleteKeeps(data) ==
  /\ Handled("GUILD_DELETE", data)
  /\ UNCHANGED <<user, users, readyAt, channels, guilds>>

GuildDelete(data) ==
  /\ Handled("GUILD_DELETE", data)
  /\ guilds' = Delete(guilds, data.id)
  /\ UNCHANGED <<user, users, readyAt, channels>>

\* The listeners of CHANNEL_CREATE and CHANNEL_UPDATE, and of CHANNEL_DELETE.
ChannelSet(t, ch) ==
  /\ Handled(t, ch)
  /\ channels' = SetAll(channels, <<ch>>)
  /\ UNCHANGED <<user, users, readyAt, guilds>>

ChannelDelete(ch) ==
  /\ Handled("CHANNEL_DELETE", ch)
  /\ channels' = Delete(channels, ch.id)
  /\ UNCHANGED <<user, users, readyAt, guilds>>

\* The listener of USER_UPDATE.
UserUpdate(u) ==
  /\ Handled("USER_UPDATE", u)
  /\ users' = SetAll(users, <<u>>)
  /\ user' = IF user # NoUser /\ u.id = user.id THEN u ELSE user
  /\ UNCHANGED <<readyAt, guilds, channels>>

\* Client.destroy(): the caches are emptied and the gateway is destroyed.
Destroy ==
  /\ Len(events) < MaxEvents
  /\ events' = Append(events, [t |-> "destroy", d |-> NoUser])
  /\ readyAt' = FALSE
  /\ user' = NoUser
  /\ guilds' = <<>>
  /\ channels' = <<>>
  /\ users' = <<>>
  /\ IF sessionState # "Terminated"
       THEN /\ sessionState' = "Terminated"
            /\ ForceClose
            /\ backoffs' = 0
            /\ heartbeat' = StoppedHeartbeat
            /\ ClearSession
            /\ gwEvent' = "shutdown"
            /\ UNCHANGED <<reconnectAttempt, maxReconnectAttempts, closed, sent, fatal>>
       ELSE UNCHANGED gwVars
  /\ UNCHANGED <<limiterVars, clientVars, cmdVars>>

\* Client.isReady.
IsReady == readyAt

NextClient ==
  \/ \E data \in ReadyData : Ready(data)
  \/ \E guild \in GuildObjects : GuildCreate(guild)
  \/ \E guild \in GuildObjects : GuildUpdate(guild)
  \/ \E g \in GuildIds : GuildDelete([id |-> g])
  \/ \E t \in {"CHANNEL_CREATE", "CHANNEL_UPDATE"}, ch \in ChannelObjects : ChannelSet(t, ch)
  \/ \E ch \in ChannelObjects : ChannelDelete(ch)
  \/ \E u \in UserObjects : UserUpdate(u)
  \/ Destroy

SpecClient == InitIdle /\ [][NextClient]_vars


\* ------------------------------------------------------------- properties

\* This step ran the bucket operation op.
Ran(op) == Len(pending') < Len(pending) /\ last'.op = op

\* The timestamps of ts that are not older than now - windowMs.
InWindow(ts, now) == SelectSeq(ts, LAMBDA t : t >= now - windowMs)

\* The oldest timestamp of a non-empty ts.
Oldest(ts) == CHOOSE t \in {ts[i] : i \in 1..Len(ts)} : \A i \in 1..Len(ts) : t <= ts[i]

\* C1: of the acquire calls racing one fresh bucket, those that return within
\* the first window (less than windowMs after the first admission) return 0
\* exactly when fewer than limit acquires ran before them: exactly limit are
\* admitted, whatever the number of calls and the order of the steps.
C1_ExactlyLimitAdmitted ==
  [][Ran("acquire") /\ firstAcq' # -1 => (last'.ret = 0 <=> acqCount < limit)]_vars

C1_Witness ==
  /\ limit = 2 /\ acqCount = limit /\ firstAcq # -1
  /\ last.op = "acquire" /\ last.ret > 0
  /\ \E i \in 1..Len(pending) : pending[i].op = "acquire"

\* C2: at most limit calls of waitForRateLimit return within any interval of
\* windowMs.
C2_ReturnsWithinLimit == Len(returned) <= limit

\* C3: acquire keeps the timestamps not older than now - windowMs; with fewer
\* than limit of them left it appends now and returns 0, otherwise it records
\* nothing and returns max(0, oldest + windowMs - now).
C3_AcquireContract ==
  [][Ran("acquire") =>
       LET kept == InWindow(timestamps, clock) IN
       IF Len(kept) < limit
         THEN timestamps' = Append(kept, clock') /\ last'.ret = 0
         ELSE /\ timestamps' = kept
              /\ last'.ret = Max(0, Oldest(kept) + windowMs - clock')]_vars

C3_Witness ==
  /\ last.op = "acquire" /\ last.recorded
  /\ limit = 2 /\ acqCount = limit /\ timestamps = <<last.now>>

\* C4: acquire returns 0 exactly when it recorded a timestamp for the call; a
\* call that records nothing returns a strictly positive wait.
C4_ZeroMeansAcquired ==
  last.op = "acquire" => (last.ret = 0 <=> last.recorded)

\* C5: the bucket never holds more than limit timestamps, and right after an
\* operation that prunes none of them is older than now - windowMs.
C5_BucketInvariant ==
  [][/\ Len(timestamps') <= limit
     /\ (Len(pending') < Len(pending) /\ last'.op # "reset")
          => \A i \in 1..Len(timestamps') : timestamps'[i] >= clock - windowMs]_vars

C5_Witness ==
  last.op = "getRemaining" /\ last.ret = limit /\ acqCount = limit /\ limit = 2

\* C6: on a fresh bucket the first limit acquires return 0; a later acquire
\* within windowMs of the first returns the positive wait oldest + windowMs -
\* now; and the acquire that follows a refused one after that wait returns 0.
C6_FillWaitRetry ==
  [][Ran("acquire") =>
       /\ acqCount < limit => last'.ret = 0
       /\ (acqCount = limit /\ firstAcq' # -1)
            => last'.ret = firstAcq + windowMs - clock' /\ last'.ret > 0
       /\ (last.op = "acquire" /\ last.ret > 0 /\ clock >= last.now + last.ret)
            => last'.ret = 0]_vars

C6_Witness ==
  /\ acqCount = limit /\ firstAcq # -1 /\ Len(timestamps) = limit
  /\ last.op = "acquire" /\ ~last.recorded
  /\ last.ret = firstAcq + windowMs - last.now /\ last.ret = windowMs - 1
  /\ limit = 2 /\ windowMs = 2

\* C7: a call of waitForRateLimit makes at most two acquire calls and at most
\* two sleeps, and it returns.
C7_BoundedWait ==
  /\ [](\A c \in Callers : acquireCalls[c] <= 2 /\ sleeps[c] <= 2)
  /\ \A c \in Callers : (pc[c] # "idle") ~> (pc[c] = "done")

C7_Witness ==
  \E c \in Callers : pc[c] = "done" /\ acquireCalls[c] = 2 /\ sleeps[c] = 2

\* C8: the operations of a bucket run one at a time in the order of their
\* _enqueue calls: only the callback enqueued first can run, and it is the
\* one that runs.
C8_Serialized ==
  /\ last.pos <= 1
  /\ \A i \in 1..Len(pending) : Runnable(i) => i = 1

C8_Witness ==
  /\ last.pos = 1 /\ Len(pending) >= 2
  /\ pending[1].op = "reset" /\ pending[2].op = "acquire" /\ pending[2].blocked

\* The value getBucket is given for the placeholder called name.
ParamFor(params, name) ==
  LET k == CHOOSE k \in 1..Len(Placeholders) : Placeholders[k].name = name IN
  params[Placeholders[k].param]

PlaceholderNames == {Placeholders[k].name : k \in 1..Len(Placeholders)}

\* The placeholders a template contains.
PlaceholdersIn(template) == {n \in PlaceholderNames : Includes(template, <<Sep, n>>)}

\* The template with each of its own placeholders that has a value replaced
\* by that value, all at once.
RECURSIVE Expand(_, _, _)
Expand(template, params, i) ==
  IF i > Len(template) THEN <<>>
  ELSE (IF i > 1 /\ template[i - 1] = Sep /\ template[i] \in PlaceholderNames
             /\ ParamFor(params, template[i]) # <<>>
          THEN ParamFor(params, template[i])
          ELSE <<template[i]>>) \o Expand(template, params, i + 1)

\* C11: a step that changes a bucket (an acquire, getRemaining, getResetTime
\* or reset called on it or run by its chain) leaves the timestamps and the
\* pending queue of every bucket of another key as they were, and the callback
\* at the head of a bucket's queue is never held back: it waits for no other
\* bucket.
C11_BucketsIndependent ==
  [][/\ \A a \in 1..Len(heap), b \in 1..Len(heap) :
          (heap[a].bucketKey # heap[b].bucketKey /\ heap'[a] # heap[a])
            => /\ heap'[b].timestamps = heap[b].timestamps
               /\ heap'[b].pending = heap[b].pending
     /\ \A b \in 1..Len(heap') :
          heap'[b].pending # <<>> => ~heap'[b].pending[1].blocked]_vars

C11_Witness ==
  /\ Len(heap) = 2 /\ heap[1].bucketKey # heap[2].bucketKey
  /\ heap[1].timestamps # <<>> /\ Len(heap[1].pending) = 1
  /\ heap[2].timestamps = <<>> /\ heap[2].pending = <<>>
  /\ clearing.pc = "idle" /\ ~cleared

\* The bucket object of the heap h made first for a key.
FirstFor(h, key) == First({b \in 1..Len(h) : h[b].bucketKey = key})

\* C12 as stated: every getBucket returns the bucket made first for its key,
\* and activeBucketCount is the number of distinct keys resolved so far.
C12_SameBucketForever ==
  /\ lookup.key # NoBucket => lookup.bucket = FirstFor(heap, lookup.key)
  /\ Cardinality(DOMAIN buckets) = Cardinality(used)

\* C12 amended: a bucket is made by the first getBucket for its key and keeps
\* its key, limit and window; until clearAll empties the table every entry of
\* the table stays, getBucket returns the bucket made first for its key, and the
\* table holds exactly the keys resolved so far.
C12_SameBucketUntilCleared ==
  [][/\ \A b \in 1..Len(heap) :
          /\ heap'[b].bucketKey = heap[b].bucketKey
          /\ heap'[b].limit = heap[b].limit
          /\ heap'[b].windowMs = heap[b].windowMs
     /\ Len(heap') > Len(heap) =>
          /\ Len(heap') = Len(heap) + 1
          /\ lookup'.key \notin DOMAIN buckets
          /\ lookup'.bucket = Len(heap')
          /\ heap'[Len(heap')].bucketKey = lookup'.key
     /\ ~cleared' =>
          /\ \A k \in DOMAIN buckets : k \in DOMAIN buckets' /\ buckets'[k] = buckets[k]
          /\ lookup'.key # NoBucket =>
               /\ lookup'.bucket = FirstFor(heap', lookup'.key)
               /\ buckets'[lookup'.key] = lookup'.bucket
          /\ DOMAIN buckets' = used'
          /\ Cardinality(DOMAIN buckets') = Cardinality(used')]_vars

C12_Witness ==
  /\ ~cleared /\ lookup.template = <<"guilds", Sep, "guild_id", Sep, "get">>
  /\ lookup.key = <<"guilds", Sep, "123", Sep, "members", Sep, "get">>
  /\ heap[lookup.bucket].limit = 10 /\ lookup.bucket = 2
  /\ heap[1].timestamps # <<>>

\* C13: with rate limiting disabled getBucket returns null and makes no
\* bucket, waitForRateLimit returns without an acquire or a sleep,
\* getBucketInfo returns remaining = Infinity and resetMs = 0, and the table
\* stays empty.
C13_DisabledDoesNothing ==
  ~enabled =>
    /\ lookup.key = NoBucket /\ lookup.bucket = Null
    /\ buckets = <<>> /\ heap = <<>>
    /\ \A c \in Callers :
         pc[c] \in {"idle", "done"} /\ acquireCalls[c] = 0 /\ sleeps[c] = 0
    /\ pending = <<>> /\ timestamps = <<>>
    /\ info.called => info.remaining = Infinity /\ info.resetMs = 0

C13_Witness ==
  /\ ~enabled /\ info.called /\ cleared
  /\ lookup.template = SendTemplate /\ lookup.params.guildId = <<"123">>
  /\ \A c \in Callers : pc[c] = "done"

\* C14: getRemaining returns limit minus the number of timestamps still inside
\* the window, between 0 and limit; getResetTime returns 0 for a bucket with no
\* timestamp inside the window and otherwise max(0, oldest + windowMs - now);
\* run right after reset, getRemaining returns limit and getResetTime 0.
C14_ReadsAfterPrune ==
  [][/\ Ran("getRemaining") =>
          /\ last'.ret = limit - Len(InWindow(timestamps, clock))
          /\ last'.ret \in 0..limit
          /\ last.op = "reset" => last'.ret = limit
     /\ Ran("getResetTime") =>
          LET kept == InWindow(timestamps, clock) IN
          /\ last'.ret = IF kept = <<>> THEN 0
                         ELSE Max(0, Oldest(kept) + windowMs - clock')
          /\ last.op = "reset" => last'.ret = 0]_vars

C14_Witness ==
  /\ last.op = "getRemaining" /\ last.ret = 1 /\ limit = 2
  /\ timestamps = <<last.now - windowMs>>

\* C15: a call of waitForRateLimit never ends in a rejection, and a call that
\* has started to wait returns.
C15_NeverRejects ==
  /\ [](\A c \in Callers : pc[c] # "rejected")
  /\ \A c \in Callers : (sleeps[c] > 0) ~> (pc[c] = "done")

C15_Witness ==
  \E c \in Callers : pc[c] = "done" /\ sleeps[c] = 1 /\ acquireCalls[c] = 2

\* C16: shouldReconnect returns false exactly for 4004, 4010, 4011, 4012, 4013
\* and 4014, and true for every other code.
C16_ShouldReconnectTable ==
  closed.code # 0 =>
    (closed.reconnect <=> closed.code \notin {4004, 4010, 4011, 4012, 4013, 4014})

C16_Witness ==
  /\ closed.code = 4014 /\ ~closed.reconnect /\ gwEvent = "close"
  /\ sessionState = "Terminated"

\* C17: once the transport has closed with 4004 the session is Terminated and
\* stays so, no reconnect is scheduled (the attempt counter does not move, the
\* transport stays closed), and exactly one fatal notification is emitted.
C17_FatalPath ==
  [][closed'.code = 4004 =>
       /\ sessionState' = "Terminated"
       /\ transport' = "closed"
       /\ fatal' = 1
       /\ gwEvent' = "close" => fatal = 0 /\ reconnectAttempt' = reconnectAttempt
       /\ gwEvent' # "close" => reconnectAttempt' = reconnectAttempt /\ fatal = 1]_vars

C17_Witness ==
  /\ closed.code = 4004 /\ sessionState = "Terminated" /\ fatal = 1
  /\ sent.op = "Heartbeat" /\ reconnectAttempt = 0

\* The close codes that allow a reconnect, among those a close can carry.
EligibleCodes == {4000, 4001, 4002, 4003, 4005, 4007, 4008, 4009, 1000, 1001, 1006}

\* C18: a close with a reconnect-eligible code leaves sessionId and lastSeq as
\* they were and leads to Reconnecting; they are kept until the next Hello; on
\* that Hello a session that holds a sessionId and a lastSeq sends a Resume
\* frame carrying both, and a session without a sessionId sends an Identify.
C18_ResumePath ==
  [][/\ (gwEvent' = "close" /\ closed'.code \in EligibleCodes) =>
          /\ sessionState' = "Reconnecting"
          /\ sessionId' = sessionId /\ lastSeq' = lastSeq
     /\ gwEvent' \in {"backoff", "open", "hello"} =>
          sessionId' = sessionId /\ lastSeq' = lastSeq
     /\ gwEvent' = "hello" =>
          /\ (sessionId # NoSession /\ lastSeq # NoSeq) =>
               /\ sent'.op = "Resume"
               /\ sent'.session_id = sessionId /\ sent'.seq = lastSeq
          /\ sessionId = NoSession => sent'.op = "Identify"]_vars

C18_Witness ==
  /\ sessionState = "Resuming" /\ gwEvent = "hello"
  /\ sessionId = "S" /\ lastSeq = 7
  /\ sent = [op |-> "Resume", token |-> "token", session_id |-> "S", seq |-> 7]

\* C19: when a heartbeat becomes due while the previous one is unacknowledged
\* the transport is closed and the session goes to Reconnecting with its
\* sessionId and lastSeq as they were.
C19_ZombieDetection ==
  [][(gwEvent' = "heartbeatDue" /\ heartbeat.awaitingAck) =>
       /\ transport' = "closed"
       /\ sessionState' = "Reconnecting"
       /\ sessionId' = sessionId /\ lastSeq' = lastSeq
       /\ ~heartbeat'.running]_vars

C19_Witness ==
  /\ gwEvent = "heartbeatDue" /\ sessionState = "Reconnecting"
  /\ transport = "closed" /\ sessionId = "T" /\ lastSeq = 7

\* The largest of the sequence numbers of the frames in a log, NoSeq if none.
RECURSIVE MaxSeqOf(_)
MaxSeqOf(log) ==
  IF log = <<>> THEN NoSeq ELSE Max(Head(log).s, MaxSeqOf(Tail(log)))

\* The sequence number of the last frame of a log that carries one, NoSeq if
\* no frame does.
RECURSIVE LastSeqOf(_)
LastSeqOf(log) ==
  IF log = <<>> THEN NoSeq
  ELSE IF log[Len(log)].s # NoSeq THEN log[Len(log)].s
  ELSE LastSeqOf(SubSeq(log, 1, Len(log) - 1))

\* The frames of a log as they came on the wire: event name and sequence.
Wire(log) == [i \in 1..Len(log) |-> [t |-> log[i].t, s |-> log[i].s]]

C21_DeliveredOnlyEstablished ==
  [][Len(delivered') > Len(delivered) =>
       /\ gwEvent' = "dispatch"
       /\ sessionState' = "Established"
       /\ \A i \in 1..Len(delivered') : delivered'[i].state = "Established"]_vars

C21_Witness ==
  /\ Len(delivered) = 2 /\ delivered[1].t = "READY"
  /\ delivered[1].state = "Established" /\ delivered[2].state = "Established"
  /\ sessionState = "Established"

\* C22: whatever the order of transport closes, heartbeat timeouts and server
\* Reconnect frames, at most one backoff wait is pending, at most one
\* transport is opening or open, and never both at once.
C22_OneReconnectAtATime ==
  /\ backoffs <= 1
  /\ sockets <= 1
  /\ backoffs + sockets <= 1
  /\ backoffs = 1 => sessionState = "Reconnecting"
  /\ sockets = 1 <=> transport # "closed"

C22_Witness ==
  /\ gwEvent = "lateClose" /\ sessionState = "Reconnecting"
  /\ backoffs = 1 /\ sockets = 0 /\ sent.op = "Heartbeat"

\* C23: reconnectAttempt never exceeds maxReconnectAttempts; Reconnecting
\* moves to Connecting only while reconnectAttempt < maxReconnectAttempts;
\* with the attempts exhausted Reconnecting is left only for Terminated; and
\* the counter is 0 after every handshake that succeeds.
C23_AttemptsBounded ==
  [][/\ reconnectAttempt' <= maxReconnectAttempts'
     /\ (sessionState = "Reconnecting" /\ sessionState' = "Connecting") =>
          /\ reconnectAttempt < maxReconnectAttempts
          /\ reconnectAttempt' = reconnectAttempt + 1
     /\ (sessionState = "Reconnecting" /\ reconnectAttempt >= maxReconnectAttempts) =>
          sessionState' \in {"Reconnecting", "Terminated"}
     /\ gwEvent' = "exhausted" => sessionState' = "Terminated"
     /\ (sessionState \in {"Identifying", "Resuming"} /\ sessionState' = "Established") =>
          reconnectAttempt' = 0]_vars

C23_Witness ==
  /\ maxReconnectAttempts = 1 /\ reconnectAttempt = 1
  /\ gwEvent = "exhausted" /\ sessionState = "Terminated"

\* C24: shutdown ends in Terminated with the transport closed, the heartbeat
\* timer stopped and no backoff wait pending; from Terminated on, the state
\* stays Terminated, no frame is sent, no transport is opened and no backoff
\* wait or reconnect attempt is started.
C24_ShutdownIsFinal ==
  [][/\ gwEvent' = "shutdown" =>
          /\ sessionState' = "Terminated"
          /\ transport' = "closed" /\ sockets' = 0
          /\ ~heartbeat'.running
          /\ backoffs' = 0
     /\ sessionState = "Terminated" =>
          /\ sessionState' = "Terminated"
          /\ sent' = sent
          /\ transport' = "closed" /\ sockets' = 0
          /\ ~heartbeat'.running
          /\ backoffs' = 0
          /\ reconnectAttempt' = reconnectAttempt]_vars

C24_Witness ==
  /\ gwEvent = "shutdown" /\ sessionState = "Terminated"
  /\ closed.code = 1006 /\ reconnectAttempt = 1 /\ sent.op = "Heartbeat"

\* C25: an invalid-session signal comes in Identifying or Resuming, clears
\* sessionId and lastSeq, leads to Reconnecting and emits no fatal
\* notification; a session without a sessionId gets one only from the READY
\* of an Identify, and the Hello of a session without one sends an Identify.
C25_InvalidSessionNotFatal ==
  [][/\ gwEvent' = "invalidSession" =>
          /\ sessionState \in {"Identifying", "Resuming"}
          /\ sessionState' = "Reconnecting"
          /\ sessionId' = NoSession /\ lastSeq' = NoSeq
          /\ fatal' = fatal
     /\ (sessionId = NoSession /\ sessionId' # NoSession) =>
          sessionState = "Identifying" /\ gwEvent' = "dispatch"
     /\ (gwEvent' = "hello" /\ sessionId = NoSession) =>
          sent' = IdentifyFrame /\ sessionState' = "Identifying"]_vars

C25_Witness ==
  /\ gwEvent = "invalidSession" /\ sessionState = "Reconnecting"
  /\ sent.op = "Resume" /\ sessionId = NoSession /\ lastSeq = NoSeq
  /\ fatal = 0

\* The listeners of an event among regs, in the order of their registration,
\* and how many of them throw.
IdsFor(regs, event) ==
  LET of == SelectSeq(regs, LAMBDA l : l.event = event)
  IN [i \in 1..Len(of) |-> of[i].id]

Throwers(regs, event) ==
  Cardinality({i \in 1..Len(regs) : regs[i].event = event /\ regs[i].throws})

\* C26: a frame whose event name is in the suppression set reaches no
\* listener: none is invoked, no waitFor settles, no once listener is used up.
C26_SuppressedNeverDelivered ==
  [][(dispatched' = dispatched + 1 /\ run'.event \in ignored) =>
       /\ run'.ids = <<>>
       /\ registry' = registry
       /\ promises' = promises
       /\ reported' = reported]_vars

C26_Witness ==
  /\ ignored = {"TYPING_START"} /\ run.event = "TYPING_START" /\ dispatched = 2
  /\ Len(registry) = 3
  /\ \A i \in 1..3 : registry[i].event = "TYPING_START"
  /\ {registry[i].kind : i \in 1..3} = {"on", "once", "waitFor"}
  /\ run.ids = <<>>

\* C27: a frame is delivered to all listeners of its event in the order of
\* their registration, whether or not some of them throw; each error is
\* reported, and the dispatch loop goes on.
C27_RegistrationOrder ==
  [][(dispatched' = dispatched + 1 /\ run'.event \notin ignored) =>
       /\ run'.ids = IdsFor(registry, run'.event)
       /\ reported' = reported + Throwers(registry, run'.event)
       /\ run'.alive]_vars

C27_Witness ==
  /\ dispatched = 2 /\ reported = 2 /\ run.ids = <<1, 2, 3>>
  /\ Len(registry) = 3 /\ registry[1].throws /\ ~registry[2].throws

\* C28: the promise of a waitFor call settles once.  It resolves at the first
\* frame of its event after the call whose payload the filter accepts, with
\* that payload, or it is rejected by its timer; either way the registration
\* is removed with it, and nothing changes the promise afterwards.
C28_WaitForSettlesOnce ==
  [][\A id \in 1..MaxListeners :
       LET before == promises[id]
           after == promises'[id]
           mine == SelectSeq(registry, LAMBDA l : l.id = id)
       IN /\ after.settles <= 1
          /\ before.state = "pending" =>
               /\ Registered(id)
               /\ after.state = "resolved" <=>
                    /\ dispatched' = dispatched + 1
                    /\ run'.event = mine[1].event /\ run'.event \notin ignored
                    /\ run'.payload \in mine[1].accept
               /\ after.state = "resolved" => after.value = run'.payload
               /\ after.state = "rejected" => before.armed /\ ~after.armed
               /\ after.state # "pending" => after.settles = 1 /\ ~Registered(id)'
          /\ before.state \in {"resolved", "rejected"} =>
               /\ after.state = before.state /\ after.value = before.value
               /\ after.settles = before.settles
               /\ ~Registered(id)']_vars

C28_Witness ==
  /\ promises[1] = [state |-> "resolved", settles |-> 1, value |-> 2, armed |-> FALSE]
  /\ promises[2].state = "rejected" /\ promises[2].settles = 1
  /\ dispatched = 2 /\ run.ids = <<>>

\* C29: for a token validateToken accepts, getGatewayToken returns the token
\* without its first 4 characters if it starts with "Bot ", and the token
\* itself if it starts with "flx_"; validateToken throws for the empty token,
\* for a token of blanks only and for a token with neither prefix, and for no
\* other.
C29_GatewayToken ==
  LET token == tok.token
      bot == Len(token) >= 4 /\ SubSeq(token, 1, 4) = <<"B", "o", "t", " ">>
      flx == Len(token) >= 4 /\ SubSeq(token, 1, 4) = <<"f", "l", "x", "_">>
      blank == \A i \in 1..Len(token) : token[i] \in {" ", "\t"}
  IN /\ (tok.op = "getGatewayToken" /\ ~ValidateToken(token).threw) =>
          /\ bot \/ flx
          /\ bot => <<"B", "o", "t", " ">> \o tok.result = token
          /\ flx => tok.result = token
     /\ tok.op = "validateToken" =>
          (tok.threw <=> (token = <<>> \/ blank \/ (~bot /\ ~flx)))

C29_Witness ==
  /\ tok.op = "getGatewayToken"
  /\ tok.token = <<"B", "o", "t", " ", "f", "l", "x", "_">>
  /\ tok.result = <<"f", "l", "x", "_">>

\* C30: an Embed that build() returns has a title of at most 256, a
\* description of at most 4096, at most 25 fields with names of at most 256
\* and values of at most 1024, a footer text of at most 2048, an author name
\* of at most 256 and a total of at most 6000; a call given a text over its
\* limit, a 26th field, or a build over the total throws.
C30_EmbedLimits ==
  LET e == embCall.embed
      a == embCall.args
  IN /\ (embCall.op = "build" /\ ~embCall.threw) =>
          /\ e = builder
          /\ e.title <= 256 /\ e.description <= 4096
          /\ Len(e.fields) <= 25
          /\ \A i \in 1..Len(e.fields) :
               e.fields[i].name <= 256 /\ e.fields[i].value <= 1024
          /\ e.footer <= 2048 /\ e.author <= 256
          /\ TotalLength(e) <= 6000
     /\ (embCall.op = "build" /\ TotalLength(builder) > 6000) => embCall.threw
     /\ (embCall.op = "setTitle" /\ a[1] > 256) => embCall.threw
     /\ (embCall.op = "setDescription" /\ a[1] > 4096) => embCall.threw
     /\ (embCall.op = "setFooter" /\ a[1] > 2048) => embCall.threw
     /\ (embCall.op = "setAuthor" /\ a[1] > 256) => embCall.threw
     /\ (embCall.op = "addField" /\ (a[1] > 256 \/ a[2] > 1024)) => embCall.threw
     /\ (embCall.op = "addFields" /\ (a[1] > 256 \/ a[2] > 1024 \/ a[3] > 256 \/ a[4] > 1024))
          => embCall.threw
     /\ Len(builder.fields) <= 25

C30_Witness ==
  /\ embCall.op = "build" /\ ~embCall.threw
  /\ Len(embCall.embed.fields) = 25
  /\ embCall.embed.title = 256 /\ embCall.embed.description = 4096
  /\ embCall.embed.author = 256
  /\ \E i \in 1..25 : embCall.embed.fields[i].value = 1024

\* The command a message names, and the entries of a log that passed.
Named(m) == Registry[CHOOSE c \in 1..Len(Registry) : Registry[c].name = m.name]
Unknown(m) == ~m.prefix \/ m.name = "" \/ \A c \in 1..Len(Registry) : Registry[c].name # m.name
Passed(e) == e.outcome \in {"ok", "parsed", "defaultValue", "set", "returns"}
IsCheck(e) == e.what \in {"precondition", "parameter"}

\* C31: an execute that returned a result ran its checks in order, every
\* precondition of the list and then every parameter, stopped at the first
\* that failed, and returned UnknownCommand for a message that names no
\* command, the precondition's error (UnmetPrecondition if it gave none),
\* BadArgCount for a missing required argument, ParseFailed for a parser that
\* returned undefined, Exception for a handler that threw; a missing optional
\* argument took its default, and the handler ran only after all checks passed.
C31_CheckOrder ==
  \A i \in 1..NumInvocations :
    LET r == inv[i]
        m == r.message
        log == r.log
    IN r.result.state = "resolved" =>
         IF Unknown(m)
           THEN log = <<>> /\ ~r.result.success /\ r.result.error = "UNKNOWN_COMMAND"
           ELSE LET c == Named(m)
                    npre == Len(c.preconditions)
                    final == log[Len(log)]
                IN /\ log # <<>>
                   /\ \A j \in 1..Len(log) :
                        /\ j < Len(log) => Passed(log[j])
                        /\ log[j].what = "precondition" => j <= npre /\ log[j].k = j
                        /\ log[j].what = "parameter" =>
                             /\ j > npre /\ log[j].k = j - npre
                             /\ log[j].k <= Len(c.parameters)
                             /\ log[j].outcome = "defaultValue" =>
                                  log[j].k > m.args /\ c.parameters[log[j].k].optional
                             /\ log[j].outcome = "missing" =>
                                  log[j].k > m.args /\ ~c.parameters[log[j].k].optional
                             /\ log[j].outcome \in {"parsed", "undefined"} => log[j].k <= m.args
                        /\ ~IsCheck(log[j]) => j > npre + Len(c.parameters)
                   /\ r.result.success <=>
                        \E j \in 1..Len(log) : log[j].what = "handler" /\ Passed(final)
                   /\ ~r.result.success =>
                        /\ ~Passed(final)
                        /\ r.result.error =
                             IF final.what = "precondition"
                               THEN (IF final.outcome = "none" THEN "UNMET_PRECONDITION"
                                     ELSE final.outcome)
                             ELSE IF final.what = "parameter"
                               THEN (IF final.outcome = "missing" THEN "BAD_ARG_COUNT"
                                     ELSE "PARSE_FAILED")
                             ELSE "EXCEPTION"

C31_Witness ==
  \E i \in 1..NumInvocations :
    /\ inv[i].message.name = "ban" /\ Len(inv[i].log) = 4
    /\ inv[i].result = [state |-> "resolved", success |-> FALSE, error |-> "PARSE_FAILED"]

\* What the wrapper of addModule ran in an invocation.
Lifecycle(r) ==
  SelectSeq(r.log, LAMBDA e : e.what \in {"context", "beforeExecute", "handler", "afterExecute"})

\* C32: a command of a module sets the context, runs beforeExecute, the
\* handler, afterExecute, in that order; nothing runs after one of them threw,
\* and then execute returns an Exception result.
C32_ModuleLifecycle ==
  \A i \in 1..NumInvocations :
    LET r == inv[i]
        ran == Lifecycle(r)
    IN (r.cmd # Null /\ Registry[r.cmd].module) =>
         /\ \A j \in 1..Len(ran) :
              /\ ran[j].what = <<"context", "beforeExecute", "handler", "afterExecute">>[j]
              /\ j < Len(ran) => ran[j].outcome # "throws"
         /\ (\E j \in 1..Len(ran) : ran[j].outcome = "throws") =>
              r.result = [state |-> "resolved", success |-> FALSE, error |-> "EXCEPTION"]
         /\ r.result.success => Len(ran) = 4

C32_Witness ==
  \E i \in 1..NumInvocations :
    LET ran == Lifecycle(inv[i]) IN
    /\ Len(ran) = 3 /\ ran[3].what = "handler" /\ ran[3].outcome = "throws"
    /\ inv[i].result.error = "EXCEPTION"

\* The value of a string of decimal digits, and the bits set in a number.
RECURSIVE Decimal(_)
Decimal(str) ==
  IF str = <<>> THEN 0
  ELSE LET d == CHOOSE n \in 0..9 : Digits[n + 1] = Head(str)
       IN d * 10 ^ (Len(str) - 1) + Decimal(Tail(str))
BitsOf(n) == {b \in 0..n : (n \div 2 ^ b) % 2 = 1}

\* C33: requirePermissions(requiredBits) succeeds exactly when the message has
\* a permission bitfield with bit 3 (Administrator) or with every bit of
\* requiredBits, and fails with UnmetPrecondition when the message has none or
\* a required bit is missing without Administrator.
C33_RequirePermissions ==
  \A i \in 1..NumInvocations :
    LET r == inv[i]
        raw == r.message.member_permissions
    IN (r.cmd # Null /\ r.log # <<>> /\ r.log[1].what = "precondition"
        /\ Registry[r.cmd].preconditions[1].kind = "requirePermissions") =>
         LET required == BitsOf(Registry[r.cmd].preconditions[1].requiredBits)
             missing == raw = NoPermissions \/ raw = <<>>
             carries == ~missing /\ \A j \in 1..Len(raw) : IsDigit(raw[j])
             granted == carries /\ (3 \in BitsOf(Decimal(raw)) \/ required \subseteq BitsOf(Decimal(raw)))
         IN /\ r.log[1].outcome = "ok" <=> granted
            /\ (missing \/ (carries /\ ~granted)) =>
                 /\ r.log[1].outcome = "UNMET_PRECONDITION"
                 /\ r.result = [state |-> "resolved", success |-> FALSE, error |-> "UNMET_PRECONDITION"]

C33_Witness ==
  \E i \in 1..NumInvocations :
    /\ inv[i].message.member_permissions = <<"8">>
    /\ inv[i].log # <<>> /\ inv[i].log[1].what = "precondition" /\ inv[i].log[1].outcome = "ok"

\* C37: the promise of execute is never rejected.
C37_NeverRejects ==
  \A i \in 1..NumInvocations : inv[i].result.state # "rejected"

\* C38: the hooks and the handler of a module command find the context of
\* their own invocation in the module.
C38_OwnContext ==
  \A i \in 1..NumInvocations :
    \A j \in 1..Len(inv[i].log) :
      (Registry[inv[i].cmd].module
       /\ inv[i].log[j].what \in {"beforeExecute", "handler", "afterExecute"}) =>
        inv[i].log[j].context = i

\* The events handled since the last destroy, and whether event e mentions
\* guild g, a CHANNEL_ event mentions channel c, any event carries channel c.
RECURSIVE SinceDestroy(_)
SinceDestroy(es) ==
  IF es = <<>> THEN <<>>
  ELSE IF es[Len(es)].t = "destroy" THEN <<>>
  ELSE Append(SinceDestroy(SubSeq(es, 1, Len(es) - 1)), es[Len(es)])
InList(objects, id) == \E j \in 1..Len(objects) : objects[j].id = id
MentionsGuild(e, g) ==
  \/ e.t \in {"GUILD_CREATE", "GUILD_UPDATE", "GUILD_DELETE"} /\ e.d.id = g
  \/ e.t = "READY" /\ InList(e.d.guilds, g)
ChannelEvent(e, c) ==
  e.t \in {"CHANNEL_CREATE", "CHANNEL_UPDATE", "CHANNEL_DELETE"} /\ e.d.id = c
CarriesChannel(e, c) ==
  \/ ChannelEvent(e, c)
  \/ e.t = "GUILD_CREATE" /\ InList(e.d.channels, c)
  \/ e.t = "READY" /\ (InList(ChannelsOf(e.d.guilds), c) \/ InList(e.d.private_channels, c))

\* The last event of es that Mentions(e, id) is true of is not a delete.
Kept(es, Mentions(_, _), id) ==
  \E j \in 1..Len(es) :
    /\ Mentions(es[j], id)
    /\ es[j].t \notin {"GUILD_DELETE", "CHANNEL_DELETE"}
    /\ \A k \in (j + 1)..Len(es) : ~Mentions(es[k], id)

\* After destroy() the caches are empty, user is null and isReady is false.
EmptyAfterDestroy ==
  (events # <<>> /\ events[Len(events)].t = "destroy") =>
    /\ DOMAIN guilds = {} /\ DOMAIN channels = {} /\ DOMAIN users = {}
    /\ user = NoUser /\ ~IsReady

\* C34, as stated: a guild is cached exactly when the last READY or GUILD_
\* event mentioning it is not GUILD_DELETE, a channel exactly when the last
\* CHANNEL_ event mentioning it is not CHANNEL_DELETE; empty after destroy().
C34_CachesFollowEvents ==
  /\ \A g \in GuildIds : g \in DOMAIN guilds <=> Kept(SinceDestroy(events), MentionsGuild, g)
  /\ \A c \in ChannelIds : c \in DOMAIN channels <=> Kept(SinceDestroy(events), ChannelEvent, c)
  /\ EmptyAfterDestroy

\* C34, amended: for the channels, a READY or GUILD_CREATE that carries the
\* channel counts as an event mentioning it.
C34_CachesFollowPayloads ==
  /\ \A g \in GuildIds : g \in DOMAIN guilds <=> Kept(SinceDestroy(events), MentionsGuild, g)
  /\ \A c \in ChannelIds : c \in DOMAIN channels <=> Kept(SinceDestroy(events), CarriesChannel, c)
  /\ EmptyAfterDestroy

C34_Witness ==
  /\ Len(events) = 3 /\ events[1].t = "READY" /\ events[2].t = "GUILD_DELETE"
  /\ events[3].t = "CHANNEL_DELETE"
  /\ DOMAIN guilds = {"g2"} /\ DOMAIN channels = {"c2"}

\* C35: when clearAll completes, every bucket that was in the table when it
\* was called has no timestamps and the table is empty, whatever getBucket and
\* acquire calls ran between its awaits.
C35_ClearAllResetsAll ==
  [][(cleared' /\ ~cleared) =>
       /\ \A b \in clearing.started : heap'[b].timestamps = <<>>
       /\ DOMAIN buckets' = {}]_vars

\* C36: the timestamps are in non-decreasing order, an operation that prunes
\* leaves exactly those not older than now - windowMs, and the wait a full
\* bucket returns is computed from the oldest timestamp.
C36_TimestampsSorted ==
  [][/\ \A i, j \in 1..Len(timestamps') : i < j => timestamps'[i] <= timestamps'[j]
     /\ (Len(pending') < Len(pending) /\ last'.op # "reset") =>
          LET kept == SelectSeq(timestamps, LAMBDA t : t >= clock - windowMs)
          IN /\ timestamps' = IF last'.recorded THEN Append(kept, last'.now) ELSE kept
             /\ (last'.op = "acquire" /\ ~last'.recorded) =>
                  /\ \A i \in 1..Len(kept) : kept[1] <= kept[i]
                  /\ last'.ret = Max(0, kept[1] + windowMs - last'.now)]_vars

C36_Witness ==
  /\ Len(timestamps) = 2 /\ timestamps[1] < timestamps[2]
  /\ last.op = "acquire" /\ ~last.recorded /\ last.ret > 0

\* C39: a call on the EmbedBuilder that throws leaves the builder as it was.
C39_FailedCallChangesNothing ==
  [][embCall'.threw => builder' = builder]_vars

\* Whether bucket object b is in use: it holds a timestamp or an acquire that
\* has yet to run.
InUse(h, b) ==
  \/ h[b].timestamps # <<>>
  \/ \E i \in 1..Len(h[b].pending) : h[b].pending[i].op = "acquire"

\* C40: no two bucket objects of the same bucketKey are in use at once.
C40_OneBucketPerKey ==
  \A a, b \in 1..Len(heap) :
    (a # b /\ heap[a].bucketKey = heap[b].bucketKey) =>
      ~(InUse(heap, a) /\ InUse(heap, b))

\* C9: "channels::channel_id::messages::send" resolves with channelId "123"
\* to "channels::123::messages::send", and without a channelId to the template
\* itself, which is then the key of the one bucket all such calls get.
C9_PlaceholderSubstitution ==
  (lookup.template = SendTemplate /\ lookup.key # NoBucket) =>
     /\ lookup.params.channelId = <<"123">>
          => lookup.key = <<"channels", Sep, "123", Sep, "messages", Sep, "send">>
     /\ lookup.params.channelId = <<>> => lookup.key = SendTemplate
     /\ lookup.key \in DOMAIN buckets

C9_Witness ==
  /\ lookup.template = SendTemplate /\ lookup.params.channelId = <<>>
  /\ lookup.params.guildId = <<"123">> /\ lookup.key = SendTemplate
  /\ <<"channels", Sep, "123", Sep, "messages", Sep, "send">> \in DOMAIN buckets

\* C10: getBucket substitutes exactly the placeholders that are in the template
\* and have a value, and two calls with the same template whose params differ
\* in the value of a placeholder of the template get different keys.
C10_DistinctValuesDistinctKeys ==
  [][lookup'.key # NoBucket =>
       /\ lookup'.key = Expand(lookup'.template, lookup'.params, 1)
       /\ (/\ lookup.key # NoBucket
           /\ lookup.template = lookup'.template
           /\ \E n \in PlaceholdersIn(lookup.template) :
                ParamFor(lookup.params, n) # ParamFor(lookup'.params, n))
            => lookup'.key # lookup.key]_vars

====
